---- MODULE Spec2Model ----
(***************************************************************************)
(* Model of rustedbytes-counterlines: the comment parser and the per-file  *)
(* counter (language.rs, counter.rs), the report model and its export and  *)
(* import (report.rs, output.rs) and the report differ (processor.rs).     *)
(*                                                                         *)
(* Text is modelled as a sequence of one-character strings, so that the    *)
(* string operations of the source (find, contains, starts_with, trim,     *)
(* slicing) are computed character by character.                           *)
(***************************************************************************)
EXTENDS Integers, Sequences, FiniteSets, TLC

(***************************************************************************)
(* Bounds of the model.                                                    *)
(***************************************************************************)
\* longest file the counter reads from a stream of arbitrary lines
MaxLines == 3
\* most start lines fed to the parser before the end lines
MaxNest == 3
\* most arbitrary lines fed to the parser
MaxFed == 2
\* most files in a report
MaxFiles == 2
\* most files in a compared report
MaxCompared == 2
\* most paths in a scan
MaxScanned == 2
\* most calls that change the detector
MaxCalls == 2
\* most threads of the worker pool
MaxPool == 2

(***************************************************************************)
(* String operations of the Rust standard library, as the source uses them.*)
(***************************************************************************)
\* Option::None of str::find
None == -1

\* char::is_whitespace, over the characters of the model
IsWhitespace(c) == c = " "

\* &s[k..] with a 0-based byte offset k
Drop(s, k) == SubSeq(s, k + 1, Len(s))

\* &s[..k] with a 0-based byte offset k
Take(s, k) == SubSeq(s, 1, k)

\* str::starts_with
StartsWith(s, p) == Len(p) <= Len(s) /\ SubSeq(s, 1, Len(p)) = p

\* str::find: 0-based offset of the first occurrence of p in s, or None
Find(s, p) ==
    LET hits == {i \in 0..(Len(s) - Len(p)) : SubSeq(s, i + 1, i + Len(p)) = p}
    IN  IF hits = {} THEN None
        ELSE CHOOSE i \in hits : \A j \in hits : i <= j

\* str::contains
Contains(s, p) == Find(s, p) # None

RECURSIVE TrimStart(_)
\* str::trim_start
TrimStart(s) ==
    IF s # <<>> /\ IsWhitespace(Head(s)) THEN TrimStart(Tail(s)) ELSE s

RECURSIVE TrimEnd(_)
\* str::trim_end
TrimEnd(s) ==
    IF s # <<>> /\ IsWhitespace(s[Len(s)]) THEN TrimEnd(Take(s, Len(s) - 1)) ELSE s

\* str::trim
Trim(s) == TrimEnd(TrimStart(s))

(***************************************************************************)
(* Language definitions (language.rs).                                     *)
(***************************************************************************)
\* Option<String> of preprocessor_prefix
NoPrefix == [some |-> FALSE, value |-> <<>>]
SomePrefix(p) == [some |-> TRUE, value |-> p]

\* struct Language
Language(name, extensions, single, multi, nested, prefix) ==
    [name |-> name, extensions |-> extensions, single_line_comment |-> single,
     multi_line_comment |-> multi, nested_comments |-> nested,
     preprocessor_prefix |-> prefix]

SlashSlash == <<"/", "/">>
SlashStar  == <<"/", "*">>
StarSlash  == <<"*", "/">>
Hash       == <<"#">>
TripleSingle == <<"'", "'", "'">>
TripleDouble == <<"\"", "\"", "\"">>

\* load_default_languages: the built-in definitions the model keeps
RustLang == Language(<<"R", "u", "s", "t">>, <<<<"r", "s">>>>, <<SlashSlash>>,
                     <<<<SlashStar, StarSlash>>>>, TRUE, NoPrefix)
CLang == Language(<<"C">>, <<<<"c">>, <<"h">>>>, <<SlashSlash>>,
                  <<<<SlashStar, StarSlash>>>>, FALSE, SomePrefix(Hash))
PythonLang == Language(<<"P", "y", "t", "h", "o", "n">>,
                       <<<<"p", "y">>, <<"p", "y", "w">>>>, <<Hash>>,
                       <<<<TripleSingle, TripleSingle>>,
                         <<TripleDouble, TripleDouble>>>>, FALSE, NoPrefix)
ShellLang == Language(<<"S", "h", "e", "l", "l">>,
                      <<<<"s", "h">>, <<"b", "a", "s", "h">>, <<"z", "s", "h">>>>, <<Hash>>,
                      <<>>, FALSE, NoPrefix)

\* a definition load_from_config can add: nested comments, two marker pairs
PascalLang == Language(<<"P", "a", "s", "c", "a", "l">>,
                       <<<<"p", "a", "s">>>>, <<SlashSlash>>,
                       <<<<<<"{">>, <<"}">>>>, <<<<"(", "*">>, <<"*", ")">>>>>>,
                       TRUE, NoPrefix)

(***************************************************************************)
(* CommentParser (language.rs).                                            *)
(***************************************************************************)
\* enum LineType
LineEmpty   == "Empty"
LineComment == "Comment"
LineLogical == "Logical"
LineMixed   == "Mixed"

\* the first loop of parse_line: the first single-line marker, in declared
\* order, that prefixes the trimmed line (0 when there is none)
FirstPrefix(lang, trimmed) ==
    LET hits == {k \in 1..Len(lang.single_line_comment) :
                    StartsWith(trimmed, lang.single_line_comment[k])}
    IN  IF hits = {} THEN 0 ELSE CHOOSE k \in hits : \A j \in hits : k <= j

\* mutant of parse_line: the preprocessor prefix is tested whatever the flag
parse_line_AlwaysSuppresses(lang, ignore_preprocessor, line) ==
    LET trimmed == Trim(line)
        k == FirstPrefix(lang, trimmed)
    IN  IF /\ lang.preprocessor_prefix.some
           /\ StartsWith(trimmed, lang.preprocessor_prefix.value)
        THEN LineEmpty
        ELSE IF trimmed = <<>> THEN LineEmpty
        ELSE IF k # 0
        THEN IF Trim(Drop(trimmed, Len(lang.single_line_comment[k]))) = <<>>
             THEN LineEmpty
             ELSE LineComment
        ELSE IF \E j \in 1..Len(lang.single_line_comment) :
                    Contains(line, lang.single_line_comment[j])
        THEN LineMixed
        ELSE LineLogical

\* CommentParser::parse_line
parse_line(lang, ignore_preprocessor, line) ==
    LET trimmed == Trim(line)
        k == FirstPrefix(lang, trimmed)
    IN  IF /\ ignore_preprocessor
           /\ lang.preprocessor_prefix.some
           /\ StartsWith(trimmed, lang.preprocessor_prefix.value)
        THEN LineEmpty
        ELSE IF trimmed = <<>> THEN LineEmpty
        ELSE IF k # 0
        THEN IF Trim(Drop(trimmed, Len(lang.single_line_comment[k]))) = <<>>
             THEN LineEmpty
             ELSE LineComment
        ELSE IF \E j \in 1..Len(lang.single_line_comment) :
                    /\ Contains(line, lang.single_line_comment[j])
                    /\ ~StartsWith(Trim(line), lang.single_line_comment[j])
        THEN LineMixed
        ELSE LineLogical

\* mutant of DepthDown: the guard `*depth > 0` is missing
DepthDown_Unguarded(depth) == depth - 1

\* depth after an end token: `if *depth > 0 { *depth -= 1; }`
DepthDown(depth) == IF depth > 0 THEN depth - 1 ELSE depth

\* one pass of the body of the while loop of the nested branch, entered with
\* a token in line_copy: the first token is consumed
NestedPass(start, end, line_copy, depth) ==
    LET start_pos == Find(line_copy, start)
        end_pos   == Find(line_copy, end)
    IN  IF start_pos # None /\ (end_pos = None \/ start_pos < end_pos)
        THEN [line_copy |-> Drop(line_copy, start_pos + Len(start)),
              depth |-> depth + 1]
        ELSE [line_copy |-> Drop(line_copy, end_pos + Len(end)),
              depth |-> DepthDown(depth)]

RECURSIVE NestedScan(_, _, _, _)
\* the while loop of the nested branch of is_in_multiline_comment: consumes
\* line_copy token by token and returns what is left of it with the depth
NestedScan(start, end, line_copy, depth) ==
    LET start_pos == Find(line_copy, start)
        end_pos   == Find(line_copy, end)
    IN  IF start_pos = None /\ end_pos = None
        THEN [line_copy |-> line_copy, depth |-> depth]
        ELSE IF start_pos # None /\ (end_pos = None \/ start_pos < end_pos)
        THEN NestedScan(start, end, Drop(line_copy, start_pos + Len(start)), depth + 1)
        ELSE NestedScan(start, end, Drop(line_copy, end_pos + Len(end)), DepthDown(depth))

\* mutant of SimplePair: an end token never resets *in_comment
SimplePair_KeepsOpen(start, end, line, st) ==
    IF st.in_comment THEN [st EXCEPT !.result = TRUE]
    ELSE IF Contains(line, start) THEN [st EXCEPT !.in_comment = TRUE, !.result = TRUE]
    ELSE st

\* the non-nested branch of is_in_multiline_comment for one marker pair;
\* st carries in_comment, result and whether the function has returned
SimplePair(start, end, line, st) ==
    IF st.in_comment
    THEN IF Contains(line, end)
         THEN IF Trim(Drop(line, Find(line, end) + Len(end))) # <<>>
              THEN [st EXCEPT !.in_comment = FALSE, !.returned = TRUE, !.result = FALSE]
              ELSE [st EXCEPT !.in_comment = FALSE, !.result = TRUE]
         ELSE [st EXCEPT !.result = TRUE]
    ELSE IF Contains(line, start)
    THEN LET start_pos   == Find(line, start)
             after_start == Drop(line, start_pos + Len(start))
         IN  IF Contains(after_start, end)
             THEN LET before == Trim(Take(line, start_pos))
                      after  == Trim(Drop(after_start, Find(after_start, end) + Len(end)))
                  IN  IF before # <<>> \/ after # <<>>
                      THEN [st EXCEPT !.in_comment = FALSE, !.returned = TRUE,
                                      !.result = FALSE]
                      ELSE [st EXCEPT !.in_comment = FALSE, !.result = TRUE]
             ELSE [st EXCEPT !.in_comment = TRUE, !.result = TRUE]
    ELSE st

\* one iteration of `for (start, end) in &self.language.multi_line_comment`
PairStep(lang, line, st, pair) ==
    IF st.returned THEN st
    ELSE IF lang.nested_comments
    THEN LET r == NestedScan(pair[1], pair[2], st.line_copy, st.depth)
         IN  [st EXCEPT !.line_copy = r.line_copy, !.depth = r.depth,
                        !.result = (r.depth > 0)]
    ELSE SimplePair(pair[1], pair[2], line, st)

RECURSIVE PairLoop(_, _, _, _)
\* the state of is_in_multiline_comment after the first k marker pairs
PairLoop(lang, line, st, k) ==
    IF k = 0 THEN st
    ELSE PairStep(lang, line, PairLoop(lang, line, st, k - 1),
                  lang.multi_line_comment[k])

\* CommentParser::is_in_multiline_comment: the returned boolean and the
\* values left in *in_comment and *depth
is_in_multiline_comment(lang, line, in_comment, depth) ==
    IF lang.multi_line_comment = <<>>
    THEN [result |-> FALSE, in_comment |-> in_comment, depth |-> depth]
    ELSE LET st == PairLoop(lang, line,
                            [in_comment |-> in_comment, depth |-> depth,
                             line_copy |-> line, result |-> in_comment,
                             returned |-> FALSE],
                            Len(lang.multi_line_comment))
         IN  [result |-> st.result, in_comment |-> st.in_comment, depth |-> st.depth]

(***************************************************************************)
(* Report model (report.rs).                                               *)
(***************************************************************************)
\* the decimal digits, by value
Digits == <<"0", "1", "2", "3", "4", "5", "6", "7", "8", "9">>

RECURSIVE ToDecimal(_)
\* usize::to_string
ToDecimal(n) ==
    IF n < 10 THEN <<Digits[n + 1]>>
    ELSE ToDecimal(n \div 10) \o <<Digits[(n % 10) + 1]>>

\* the characters paths and names are made of, in byte order
ByteOrder ==
    <<"&", ".", "1", "2", "C", "P", "R", "S", "U", "a", "b", "c", "e",
      "h", "k", "l", "n", "o", "p", "s", "t", "u", "w", "x", "y", "z">>

RECURSIVE PathLessEq(_, _)
\* a.path.cmp(&b.path) != Greater, for paths of one component
PathLessEq(a, b) ==
    IF a = <<>> THEN TRUE
    ELSE IF b = <<>> THEN FALSE
    ELSE IF Head(a) # Head(b)
    THEN LET Byte(c) == CHOOSE i \in 1..Len(ByteOrder) : ByteOrder[i] = c
         IN  Byte(Head(a)) < Byte(Head(b))
    ELSE PathLessEq(Tail(a), Tail(b))

\* struct FileStats
FileStats(path, lang, total, logical, comment, empty) ==
    [path |-> path, language |-> lang, total_lines |-> total,
     logical_lines |-> logical, comment_lines |-> comment, empty_lines |-> empty]

\* Option<String> of Report::checksum
NoChecksum == [some |-> FALSE, value |-> <<>>]
SomeChecksum(c) == [some |-> TRUE, value |-> c]

\* REPORT_FORMAT_VERSION
ReportFormatVersion == <<"1", ".", "2">>

RECURSIVE SumSeq(_)
\* Iterator::sum over a sequence of numbers
SumSeq(ns) == IF ns = <<>> THEN 0 ELSE Head(ns) + SumSeq(Tail(ns))

\* files.iter().map(|f| f.total_lines).sum(), and the like for each counter
SumField(files, field) == SumSeq([i \in 1..Len(files) |-> files[i][field]])

\* the entry calculate_language_stats accumulates for one language
LanguageStatsOf(files, lang) ==
    LET fs == SelectSeq(files, LAMBDA f : f.language = lang)
    IN  [language |-> lang, file_count |-> Len(fs),
         total_lines |-> SumField(fs, "total_lines"),
         logical_lines |-> SumField(fs, "logical_lines"),
         comment_lines |-> SumField(fs, "comment_lines"),
         empty_lines |-> SumField(fs, "empty_lines")]

RECURSIVE SortedNames(_)
\* a set of names as the sequence sorted ascending (String::cmp)
SortedNames(names) ==
    IF names = {} THEN <<>>
    ELSE LET least == CHOOSE n \in names : \A m \in names : PathLessEq(n, m)
         IN  <<least>> \o SortedNames(names \ {least})

\* mutant of calculate_language_stats: the entries stay in the order in
\* which the languages first appear in files
calculate_language_stats_Unsorted(files) ==
    LET firsts == SelectSeq([i \in 1..Len(files) |-> i], LAMBDA i :
                    \A j \in 1..(i - 1) : files[j].language # files[i].language)
    IN  [i \in 1..Len(firsts) |-> LanguageStatsOf(files, files[firsts[i]].language)]

\* Report::calculate_language_stats
calculate_language_stats(files) ==
    LET names == SortedNames({files[i].language : i \in 1..Len(files)})
    IN  [i \in 1..Len(names) |-> LanguageStatsOf(files, names[i])]

\* Report::calculate_summary
calculate_summary(files, languages) ==
    [total_files |-> Len(files),
     total_lines |-> SumField(files, "total_lines"),
     logical_lines |-> SumField(files, "logical_lines"),
     comment_lines |-> SumField(files, "comment_lines"),
     empty_lines |-> SumField(files, "empty_lines"),
     languages_count |-> Len(languages),
     unsupported_files |-> 0]

\* Report::new, with the Utc::now() it reads
ReportNew(files, unsupported_files, now) ==
    LET languages == calculate_language_stats(files)
        summary == [calculate_summary(files, languages)
                        EXCEPT !.unsupported_files = Len(unsupported_files)]
    IN  [report_format_version |-> ReportFormatVersion,
         generated_at |-> now,
         files |-> files,
         languages |-> languages,
         summary |-> summary,
         unsupported_files |-> unsupported_files,
         checksum |-> NoChecksum]

RECURSIVE InsertByPath(_, _)
\* stable insertion: f goes after every element whose path is not greater
InsertByPath(sorted, f) ==
    IF sorted = <<>> THEN <<f>>
    ELSE IF PathLessEq(Head(sorted).path, f.path)
    THEN <<Head(sorted)>> \o InsertByPath(Tail(sorted), f)
    ELSE <<f>> \o sorted

\* mutant of SortByPath: the files are hashed in list order
SortByPath_Unsorted(files) == files

RECURSIVE SortByPath(_)
\* sorted_files.sort_by(|a, b| a.path.cmp(&b.path)): a stable sort
SortByPath(files) ==
    IF files = <<>> THEN <<>>
    ELSE InsertByPath(SortByPath(SubSeq(files, 1, Len(files) - 1)), files[Len(files)])

RECURSIVE HasherInput(_)
\* the bytes the hasher.update calls feed for the files, in the given order
HasherInput(files) ==
    IF files = <<>> THEN <<>>
    ELSE LET f == Head(files)
         IN  f.path \o f.language \o ToDecimal(f.total_lines)
                \o ToDecimal(f.logical_lines) \o ToDecimal(f.comment_lines)
                \o ToDecimal(f.empty_lines) \o HasherInput(Tail(files))

\* hex::encode(hasher.finalize()): the digest stands for the bytes it was
\* fed (a collision-free SHA-256)
Sha256Hex(bytes) == bytes

\* mutant of ChecksumOf: the paths are not fed to the hasher
ChecksumOf_SkipsPaths(files) ==
    Sha256Hex(HasherInput([i \in 1..Len(files) |->
                                [SortByPath(files)[i] EXCEPT !.path = <<>>]]))

\* the value Report::calculate_checksum stores for a file list
ChecksumOf(files) == Sha256Hex(HasherInput(SortByPath(files)))

\* mutant of calculate_checksum: the timestamp is hashed behind the files
calculate_checksum_HashesTime(r) ==
    [r EXCEPT !.checksum =
        SomeChecksum(Sha256Hex(HasherInput(SortByPath(r.files)) \o ToDecimal(r.generated_at)))]

\* Report::calculate_checksum
calculate_checksum(r) == [r EXCEPT !.checksum = SomeChecksum(ChecksumOf(r.files))]

(***************************************************************************)
(* Serialized reports.  A document is a tree of nodes: a JSON member or an *)
(* XML element has a name; its content is text (kind "text"), a JSON       *)
(* number token ("num"), a JSON array ("list") or named children           *)
(* ("struct").  Numbers and timestamps travel as decimal text.             *)
(***************************************************************************)
Node(name, kind, text, children) ==
    [name |-> name, kind |-> kind, text |-> text, children |-> children]

TextNode(name, text)       == Node(name, "text", text, <<>>)
NumNode(name, n)           == Node(name, "num", ToDecimal(n), <<>>)
ListNode(name, items)      == Node(name, "list", <<>>, items)
StructNode(name, children) == Node(name, "struct", <<>>, children)

RECURSIVE ParseDecimal(_)
\* str::parse::<usize>: the number, or -1 for an error
ParseDecimal(text) ==
    IF text = <<>> THEN -1
    ELSE LET last == text[Len(text)]
             d == IF \E i \in 1..10 : Digits[i] = last
                  THEN (CHOOSE i \in 1..10 : Digits[i] = last) - 1
                  ELSE -1
         IN  IF d < 0 THEN -1
             ELSE IF Len(text) = 1 THEN d
             ELSE LET rest == ParseDecimal(Take(text, Len(text) - 1))
                  IN  IF rest < 0 THEN -1 ELSE rest * 10 + d

\* DateTime<Utc> as RFC 3339 text
Rfc3339(t) == ToDecimal(t) \o <<"Z">>

\* RFC 3339 text back to DateTime<Utc>, or -1 for an error
ParseRfc3339(text) ==
    IF text # <<>> /\ text[Len(text)] = "Z"
    THEN ParseDecimal(Take(text, Len(text) - 1))
    ELSE -1

\* the children of a node that carry the given name
Named(node, name) == SelectSeq(node.children, LAMBDA c : c.name = name)

\* Result::Err of a deserializer
Failed == [ok |-> FALSE]
\* Result::Ok of a deserializer
Parsed(v) == [ok |-> TRUE, value |-> v]

\* serde names of the fields: Report is renamed to camelCase (report.rs:45),
\* FileStats, LanguageStats and GlobalSummary keep the Rust names
ReportFieldNames ==
    [report_format_version |-> "reportFormatVersion", generated_at |-> "generatedAt",
     files |-> "files", languages |-> "languages", summary |-> "summary",
     unsupported_files |-> "unsupportedFiles", checksum |-> "checksum"]

FileStatsFieldNames ==
    <<"path", "language", "total_lines", "logical_lines", "comment_lines",
      "empty_lines">>

LanguageStatsFieldNames ==
    <<"language", "file_count", "total_lines", "logical_lines", "comment_lines",
      "empty_lines">>

GlobalSummaryFieldNames ==
    <<"total_files", "total_lines", "logical_lines", "comment_lines", "empty_lines",
      "languages_count", "unsupported_files">>

(***************************************************************************)
(* JSON export (output.rs) through the derived Serialize impls.            *)
(***************************************************************************)
\* mutant of SerializeFileStats: comment_lines is left out of the object
SerializeFileStats_NoComment(name, f) ==
    StructNode(name,
        <<TextNode("path", f.path), TextNode("language", f.language),
          NumNode("total_lines", f.total_lines), NumNode("logical_lines", f.logical_lines),
          NumNode("empty_lines", f.empty_lines)>>)

\* #[derive(Serialize)] for FileStats
SerializeFileStats(name, f) ==
    StructNode(name,
        <<TextNode("path", f.path), TextNode("language", f.language),
          NumNode("total_lines", f.total_lines), NumNode("logical_lines", f.logical_lines),
          NumNode("comment_lines", f.comment_lines), NumNode("empty_lines", f.empty_lines)>>)

\* #[derive(Serialize)] for LanguageStats
SerializeLanguageStats(name, l) ==
    StructNode(name,
        <<TextNode("language", l.language), NumNode("file_count", l.file_count),
          NumNode("total_lines", l.total_lines), NumNode("logical_lines", l.logical_lines),
          NumNode("comment_lines", l.comment_lines), NumNode("empty_lines", l.empty_lines)>>)

\* #[derive(Serialize)] for GlobalSummary
SerializeGlobalSummary(name, g) ==
    StructNode(name,
        <<NumNode("total_files", g.total_files), NumNode("total_lines", g.total_lines),
          NumNode("logical_lines", g.logical_lines), NumNode("comment_lines", g.comment_lines),
          NumNode("empty_lines", g.empty_lines), NumNode("languages_count", g.languages_count),
          NumNode("unsupported_files", g.unsupported_files)>>)

\* #[derive(Serialize)] for Report: camelCase names, checksum skipped if None
SerializeReport(r) ==
    StructNode("",
        <<TextNode(ReportFieldNames.report_format_version, r.report_format_version),
          TextNode(ReportFieldNames.generated_at, Rfc3339(r.generated_at)),
          ListNode(ReportFieldNames.files,
                   [i \in 1..Len(r.files) |-> SerializeFileStats("", r.files[i])]),
          ListNode(ReportFieldNames.languages,
                   [i \in 1..Len(r.languages) |-> SerializeLanguageStats("", r.languages[i])]),
          SerializeGlobalSummary(ReportFieldNames.summary, r.summary),
          ListNode(ReportFieldNames.unsupported_files,
                   [i \in 1..Len(r.unsupported_files) |-> TextNode("", r.unsupported_files[i])])>>
        \o (IF r.checksum.some
            THEN <<TextNode(ReportFieldNames.checksum, r.checksum.value)>>
            ELSE <<>>))

\* ReportExporter::export_json
export_json(r) == [ok |-> TRUE, format |-> "json", doc |-> SerializeReport(r)]

(***************************************************************************)
(* The derived Deserialize impls, as serde_json and serde_xml_rs drive     *)
(* them: a struct takes each field from the child carrying the field's     *)
(* serde name, an absent child is a "missing field" error unless the field *)
(* is an Option, unknown children are ignored.                             *)
(***************************************************************************)
\* a usize field: a JSON number token, or the text of an XML element
FieldNumber(node, name, format) ==
    LET hits == Named(node, name)
    IN  IF hits = <<>> THEN -1
        ELSE IF format = "json" /\ hits[1].kind # "num" THEN -1
        ELSE IF format = "xml" /\ hits[1].kind # "text" THEN -1
        ELSE ParseDecimal(hits[1].text)

\* a String or PathBuf field: present and textual
HasText(node, name) == Named(node, name) # <<>> /\ Named(node, name)[1].kind = "text"

FieldText(node, name) == Named(node, name)[1].text

\* every name of the list is a number field of the node
AllNumbers(node, names, format) ==
    \A i \in 1..Len(names) : FieldNumber(node, names[i], format) >= 0

\* #[derive(Deserialize)] for FileStats
DeserializeFileStats(node, format) ==
    LET n == FileStatsFieldNames
    IN  IF /\ node.kind = "struct"
           /\ HasText(node, n[1])
           /\ HasText(node, n[2])
           /\ AllNumbers(node, SubSeq(n, 3, 6), format)
        THEN Parsed(FileStats(FieldText(node, n[1]), FieldText(node, n[2]),
                              FieldNumber(node, n[3], format), FieldNumber(node, n[4], format),
                              FieldNumber(node, n[5], format), FieldNumber(node, n[6], format)))
        ELSE Failed

\* #[derive(Deserialize)] for LanguageStats
DeserializeLanguageStats(node, format) ==
    LET n == LanguageStatsFieldNames
    IN  IF /\ node.kind = "struct"
           /\ HasText(node, n[1])
           /\ AllNumbers(node, SubSeq(n, 2, 6), format)
        THEN Parsed([language |-> FieldText(node, n[1]),
                     file_count |-> FieldNumber(node, n[2], format),
                     total_lines |-> FieldNumber(node, n[3], format),
                     logical_lines |-> FieldNumber(node, n[4], format),
                     comment_lines |-> FieldNumber(node, n[5], format),
                     empty_lines |-> FieldNumber(node, n[6], format)])
        ELSE Failed

\* #[derive(Deserialize)] for GlobalSummary
DeserializeGlobalSummary(node, format) ==
    LET n == GlobalSummaryFieldNames
    IN  IF node.kind = "struct" /\ AllNumbers(node, n, format)
        THEN Parsed([total_files |-> FieldNumber(node, n[1], format),
                     total_lines |-> FieldNumber(node, n[2], format),
                     logical_lines |-> FieldNumber(node, n[3], format),
                     comment_lines |-> FieldNumber(node, n[4], format),
                     empty_lines |-> FieldNumber(node, n[5], format),
                     languages_count |-> FieldNumber(node, n[6], format),
                     unsupported_files |-> FieldNumber(node, n[7], format)])
        ELSE Failed

\* the nodes a Vec field is read from: the items of the JSON array, or the
\* XML elements carrying the field's name (one element per item)
VecItems(node, name, format) ==
    LET hits == Named(node, name)
    IN  IF format = "json"
        THEN IF hits # <<>> /\ hits[1].kind = "list" THEN Parsed(hits[1].children) ELSE Failed
        ELSE IF hits # <<>> THEN Parsed(hits) ELSE Failed

\* #[derive(Deserialize)] for Report
DeserializeReport(node, format) ==
    LET n == ReportFieldNames
        files == VecItems(node, n.files, format)
        languages == VecItems(node, n.languages, format)
        unsupported == VecItems(node, n.unsupported_files, format)
        summary == Named(node, n.summary)
        checksum == Named(node, n.checksum)
        time == IF HasText(node, n.generated_at)
                THEN ParseRfc3339(FieldText(node, n.generated_at)) ELSE -1
    IN  IF /\ node.kind = "struct"
           /\ HasText(node, n.report_format_version)
           /\ time >= 0
           /\ files.ok
           /\ \A i \in 1..Len(files.value) : DeserializeFileStats(files.value[i], format).ok
           /\ languages.ok
           /\ \A i \in 1..Len(languages.value) :
                    DeserializeLanguageStats(languages.value[i], format).ok
           /\ summary # <<>>
           /\ DeserializeGlobalSummary(summary[1], format).ok
           /\ unsupported.ok
           /\ \A i \in 1..Len(unsupported.value) : unsupported.value[i].kind = "text"
           /\ checksum # <<>> => checksum[1].kind = "text"
        THEN Parsed(
               [report_format_version |-> FieldText(node, n.report_format_version),
                generated_at |-> time,
                files |-> [i \in 1..Len(files.value) |->
                              DeserializeFileStats(files.value[i], format).value],
                languages |-> [i \in 1..Len(languages.value) |->
                              DeserializeLanguageStats(languages.value[i], format).value],
                summary |-> DeserializeGlobalSummary(summary[1], format).value,
                unsupported_files |-> [i \in 1..Len(unsupported.value) |->
                              unsupported.value[i].text],
                checksum |-> IF checksum = <<>> THEN NoChecksum
                             ELSE SomeChecksum(checksum[1].text)])
        ELSE Failed

(***************************************************************************)
(* XML export (output.rs): the elements the format! templates write.       *)
(***************************************************************************)
\* ReportExporter::escape_xml, for one character
EscapeChar(c) ==
    CASE c = "&"  -> <<"&", "a", "m", "p", ";">>
      [] c = "<"  -> <<"&", "l", "t", ";">>
      [] c = ">"  -> <<"&", "g", "t", ";">>
      [] c = "\"" -> <<"&", "q", "u", "o", "t", ";">>
      [] c = "'"  -> <<"&", "a", "p", "o", "s", ";">>
      [] OTHER    -> <<c>>

RECURSIVE escape_xml(_)
\* ReportExporter::escape_xml
escape_xml(text) ==
    IF text = <<>> THEN <<>> ELSE EscapeChar(Head(text)) \o escape_xml(Tail(text))

RECURSIVE UnescapeXml(_)
\* the XML reader decoding the entity references of a text
UnescapeXml(text) ==
    IF text = <<>> THEN <<>>
    ELSE LET hits == {c \in {"&", "<", ">", "\"", "'"} :
                        StartsWith(text, EscapeChar(c))}
         IN  IF hits = {} THEN <<Head(text)>> \o UnescapeXml(Tail(text))
             ELSE LET c == CHOOSE x \in hits : TRUE
                  IN  <<c>> \o UnescapeXml(Drop(text, Len(EscapeChar(c))))

\* an element holding child elements, or only text when there are none
Element(name, children) ==
    IF children = <<>> THEN TextNode(name, <<>>) ELSE StructNode(name, children)

\* ReportExporter::format_files_xml
format_files_xml(files) ==
    [i \in 1..Len(files) |->
        StructNode("file",
            <<TextNode("path", escape_xml(files[i].path)),
              TextNode("language", escape_xml(files[i].language)),
              TextNode("totalLines", ToDecimal(files[i].total_lines)),
              TextNode("logicalLines", ToDecimal(files[i].logical_lines)),
              TextNode("commentLines", ToDecimal(files[i].comment_lines)),
              TextNode("emptyLines", ToDecimal(files[i].empty_lines))>>)]

\* ReportExporter::format_languages_xml
format_languages_xml(languages) ==
    [i \in 1..Len(languages) |->
        StructNode("language",
            <<TextNode("name", escape_xml(languages[i].language)),
              TextNode("fileCount", ToDecimal(languages[i].file_count)),
              TextNode("totalLines", ToDecimal(languages[i].total_lines)),
              TextNode("logicalLines", ToDecimal(languages[i].logical_lines)),
              TextNode("commentLines", ToDecimal(languages[i].comment_lines)),
              TextNode("emptyLines", ToDecimal(languages[i].empty_lines))>>)]

\* ReportExporter::format_unsupported_files_xml
format_unsupported_files_xml(unsupported_files) ==
    [i \in 1..Len(unsupported_files) |->
        TextNode("unsupportedFile", escape_xml(unsupported_files[i]))]

\* ReportExporter::format_checksum_xml
format_checksum_xml(checksum) ==
    IF checksum.some THEN <<TextNode("checksum", escape_xml(checksum.value))>> ELSE <<>>

\* ReportExporter::export_xml
export_xml(r) ==
    [ok |-> TRUE, format |-> "xml", doc |->
        StructNode("report",
            <<TextNode("reportFormatVersion", r.report_format_version),
              TextNode("generatedAt", Rfc3339(r.generated_at)),
              StructNode("summary",
                  <<TextNode("totalFiles", ToDecimal(r.summary.total_files)),
                    TextNode("totalLines", ToDecimal(r.summary.total_lines)),
                    TextNode("logicalLines", ToDecimal(r.summary.logical_lines)),
                    TextNode("commentLines", ToDecimal(r.summary.comment_lines)),
                    TextNode("emptyLines", ToDecimal(r.summary.empty_lines)),
                    TextNode("languagesCount", ToDecimal(r.summary.languages_count)),
                    TextNode("unsupportedFiles", ToDecimal(r.summary.unsupported_files))>>),
              Element("files", format_files_xml(r.files)),
              Element("languages", format_languages_xml(r.languages)),
              Element("unsupportedFiles", format_unsupported_files_xml(r.unsupported_files))>>
            \o format_checksum_xml(r.checksum))]

RECURSIVE DecodeXml(_)
\* the tree as the XML reader hands it to the Deserialize impls: the entity
\* references of every text decoded
DecodeXml(node) ==
    [node EXCEPT !.text = UnescapeXml(@),
                 !.children = [i \in 1..Len(@) |-> DecodeXml(@[i])]]

(***************************************************************************)
(* CSV export (output.rs) and import (report.rs).  A document is the list  *)
(* of records; the csv Writer and Reader are built with their defaults     *)
(* (has_headers = true, flexible = false).                                 *)
(***************************************************************************)
\* the records export_csv hands to write_record, in order: the header, a
\* record per file, the marker of the unsupported section and its paths
CsvRecords(r) ==
    << <<"Path", "Language", "Total Lines", "Logical Lines", "Comment Lines",
         "Empty Lines">> >>
    \o [i \in 1..Len(r.files) |->
            <<r.files[i].path, r.files[i].language, ToDecimal(r.files[i].total_lines),
              ToDecimal(r.files[i].logical_lines), ToDecimal(r.files[i].comment_lines),
              ToDecimal(r.files[i].empty_lines)>>]
    \o (IF r.unsupported_files # <<>>
        THEN << <<"--- Unsupported Files (not counted) ---">> >>
             \o [i \in 1..Len(r.unsupported_files) |-> <<r.unsupported_files[i]>>]
        ELSE <<>>)

\* ReportExporter::export_csv.  csv::Writer::write_record with flexible =
\* false: a record whose number of fields differs from the first record's
\* is an UnequalLengths error
export_csv(r) ==
    IF \A i \in 1..Len(CsvRecords(r)) : Len(CsvRecords(r)[i]) = Len(CsvRecords(r)[1])
    THEN [ok |-> TRUE, format |-> "csv", doc |-> CsvRecords(r)]
    ELSE [ok |-> FALSE, format |-> "csv", doc |-> <<>>]

\* the column csv's struct deserializer reads a field from: the header
\* equal to the field's serde name (0: "missing field")
CsvColumn(headers, name) ==
    LET hits == {i \in 1..Len(headers) : headers[i] = name}
    IN  IF hits = {} THEN 0 ELSE CHOOSE i \in hits : \A j \in hits : i <= j

\* one `reader.deserialize()` item: a FileStats from a data record
CsvFileStats(headers, record) ==
    LET n == FileStatsFieldNames
        col == [i \in 1..Len(n) |-> CsvColumn(headers, n[i])]
    IN  IF /\ Len(record) = Len(headers)
           /\ \A i \in 1..Len(n) : col[i] # 0
           /\ \A i \in 3..6 : ParseDecimal(record[col[i]]) >= 0
        THEN Parsed(FileStats(record[col[1]], record[col[2]],
                              ParseDecimal(record[col[3]]), ParseDecimal(record[col[4]]),
                              ParseDecimal(record[col[5]]), ParseDecimal(record[col[6]])))
        ELSE Failed

\* Report::from_csv, with the Utc::now() Report::new reads
from_csv(records, now) ==
    LET headers == IF records = <<>> THEN <<>> ELSE records[1]
        rows == IF records = <<>> THEN <<>> ELSE Tail(records)
    IN  IF \A i \in 1..Len(rows) : CsvFileStats(headers, rows[i]).ok
        THEN Parsed(ReportNew([i \in 1..Len(rows) |-> CsvFileStats(headers, rows[i]).value],
                              <<>>, now))
        ELSE Failed

\* Report::from_file: the match on the format
from_file(exported, now) ==
    CASE exported.format = "json" -> DeserializeReport(exported.doc, "json")
      [] exported.format = "xml"  -> DeserializeReport(DecodeXml(exported.doc), "xml")
      [] exported.format = "csv"  -> from_csv(exported.doc, now)

(***************************************************************************)
(* Report comparison (processor.rs).                                       *)
(***************************************************************************)
\* .iter().map(|x| (key, x)).collect::<HashMap<_, _>>(): a later element
\* replaces an earlier one of the same key
CollectMap(items, key) ==
    [k \in {items[i][key] : i \in 1..Len(items)} |->
        LET last == CHOOSE i \in 1..Len(items) :
                        /\ items[i][key] = k
                        /\ \A j \in (i + 1)..Len(items) : items[j][key] # k
        IN  items[last]]

\* the orders in which iterating a HashMap can yield its keys
KeyOrders(map) ==
    LET n == Cardinality(DOMAIN map)
    IN  {o \in [1..n -> DOMAIN map] : \A i, j \in 1..n : o[i] = o[j] => i = j}

\* mutant of IsModified: every file found in both reports counts as modified
IsModified_Always(file1, file2) == TRUE

\* the test of compare for a file of both reports
IsModified(file1, file2) ==
    \/ file1.total_lines # file2.total_lines
    \/ file1.logical_lines # file2.logical_lines
    \/ file1.empty_lines # file2.empty_lines

\* mutant of FileDelta: the deltas are report1 minus report2
FileDelta_Reversed(path, file1, file2) ==
    [path |-> path,
     total_lines_delta |-> file1.total_lines - file2.total_lines,
     logical_lines_delta |-> file1.logical_lines - file2.logical_lines,
     empty_lines_delta |-> file1.empty_lines - file2.empty_lines]

\* struct FileDelta, as compare fills it
FileDelta(path, file1, file2) ==
    [path |-> path,
     total_lines_delta |-> file2.total_lines - file1.total_lines,
     logical_lines_delta |-> file2.logical_lines - file1.logical_lines,
     empty_lines_delta |-> file2.empty_lines - file1.empty_lines]

\* struct GlobalDelta, as compare fills it
GlobalDelta(summary1, summary2) ==
    [files_delta |-> summary2.total_files - summary1.total_files,
     total_lines_delta |-> summary2.total_lines - summary1.total_lines,
     logical_lines_delta |-> summary2.logical_lines - summary1.logical_lines,
     empty_lines_delta |-> summary2.empty_lines - summary1.empty_lines,
     languages_delta |-> summary2.languages_count - summary1.languages_count]

\* stats.map(|s| s.<field> as i64).unwrap_or(0)
StatOrZero(lang_map, language, field) ==
    IF language \in DOMAIN lang_map THEN lang_map[language][field] ELSE 0

\* mutant of LanguageDelta: a language missing from report1 is given the
\* counters of report2 there, so its deltas are zero
LanguageDelta_MissingIsEqual(lang1, lang2, language) ==
    LET Stat(field) == StatOrZero(lang2, language, field)
                        - (IF language \in DOMAIN lang1
                           THEN lang1[language][field]
                           ELSE StatOrZero(lang2, language, field))
    IN  [language |-> language,
         files_delta |-> Stat("file_count"),
         total_lines_delta |-> Stat("total_lines"),
         logical_lines_delta |-> Stat("logical_lines"),
         empty_lines_delta |-> Stat("empty_lines")]

\* struct LanguageDelta, as compare fills it
LanguageDelta(lang1, lang2, language) ==
    [language |-> language,
     files_delta |-> StatOrZero(lang2, language, "file_count")
                        - StatOrZero(lang1, language, "file_count"),
     total_lines_delta |-> StatOrZero(lang2, language, "total_lines")
                        - StatOrZero(lang1, language, "total_lines"),
     logical_lines_delta |-> StatOrZero(lang2, language, "logical_lines")
                        - StatOrZero(lang1, language, "logical_lines"),
     empty_lines_delta |-> StatOrZero(lang2, language, "empty_lines")
                        - StatOrZero(lang1, language, "empty_lines")]

\* mutant of Emitted: a delta is pushed when any of its four fields is nonzero
Emitted_AnyField(delta) ==
    \/ delta.files_delta # 0
    \/ delta.total_lines_delta # 0
    \/ delta.logical_lines_delta # 0
    \/ delta.empty_lines_delta # 0

\* `if delta.files_delta != 0 || delta.total_lines_delta != 0`
Emitted(delta) == delta.files_delta # 0 \/ delta.total_lines_delta # 0

\* ComparisonResult::compare; order2 and order1 are the orders in which the
\* two file maps yield their keys
compare(report1, report2, order2, order1) ==
    LET files1 == CollectMap(report1.files, "path")
        files2 == CollectMap(report2.files, "path")
        both == SelectSeq(order2, LAMBDA p :
                    p \in DOMAIN files1 /\ IsModified(files1[p], files2[p]))
        lang1 == CollectMap(report1.languages, "language")
        lang2 == CollectMap(report2.languages, "language")
        all_languages == SortedNames(DOMAIN lang1 \cup DOMAIN lang2)
        deltas == [i \in 1..Len(all_languages) |->
                        LanguageDelta(lang1, lang2, all_languages[i])]
    IN  [report1_generated |-> report1.generated_at,
         report2_generated |-> report2.generated_at,
         global_delta |-> GlobalDelta(report1.summary, report2.summary),
         language_deltas |-> SelectSeq(deltas, Emitted),
         new_files |-> SelectSeq(order2, LAMBDA p : p \notin DOMAIN files1),
         removed_files |-> SelectSeq(order1, LAMBDA p : p \notin DOMAIN files2),
         modified_files |-> [i \in 1..Len(both) |->
                                FileDelta(both[i], files1[both[i]], files2[both[i]])]]

(***************************************************************************)
(* The detector's registry as count_file sees it.                          *)
(***************************************************************************)
\* keys of load_default_languages kept in the model
DefaultKeys == {"rust", "c", "python", "shell"}

\* LanguageDetector::new: the registry after load_default_languages
DefaultLanguages ==
    [k \in DefaultKeys |->
        CASE k = "rust"   -> RustLang
          [] k = "c"      -> CLang
          [] k = "python" -> PythonLang
          [] k = "shell"  -> ShellLang]

\* the registry after load_from_config has added the Pascal definition
LoadedLanguages ==
    [k \in DefaultKeys \cup {"pascal"} |->
        IF k = "pascal" THEN PascalLang ELSE DefaultLanguages[k]]

\* Option::None of detect
NoLanguage == "none"

\* the sentinel of count_file's language_name
UnknownName == <<"U", "n", "k", "n", "o", "w", "n">>

\* the elements of a sequence
SeqRange(s) == {s[i] : i \in 1..Len(s)}

\* Option<&str> of Path::extension
NoExtension == [some |-> FALSE, value |-> <<>>]

\* Path::extension for a path of one component: what follows the last dot
\* of the file name, unless the name has no dot or only a leading one
Extension(path) ==
    LET dots == {i \in 1..Len(path) : path[i] = "."}
        last == CHOOSE i \in dots : \A j \in dots : j <= i
    IN  IF dots = {} \/ dots = {1} THEN NoExtension
        ELSE [some |-> TRUE, value |-> Drop(path, last)]

\* LanguageDetector::add_language over a registry whose definitions share
\* no extension: the key each extension maps to
ExtensionMap(languages) ==
    [e \in UNION {SeqRange(languages[k].extensions) : k \in DOMAIN languages} |->
        CHOOSE k \in DOMAIN languages : e \in SeqRange(languages[k].extensions)]

\* the detector execute_count sets up: LanguageDetector::new, load_from_config
\* when a configuration is given, add_override for each override
Detector(with_config, overrides) ==
    LET languages == IF with_config THEN LoadedLanguages ELSE DefaultLanguages
    IN  [languages |-> languages,
         extension_map |-> ExtensionMap(languages),
         overrides |-> overrides]

\* self.languages.get(lang_name)
GetLanguage(detector, key) ==
    IF key \in DOMAIN detector.languages THEN key ELSE NoLanguage

\* mutant of add_language: an extension that is already mapped keeps its key
add_language_FirstWins(detector, key, lang) ==
    [detector EXCEPT
        !.extension_map =
            [e \in DOMAIN @ \cup SeqRange(lang.extensions) |->
                IF e \in DOMAIN @ THEN @[e] ELSE key],
        !.languages =
            [k \in DOMAIN @ \cup {key} |-> IF k = key THEN lang ELSE @[k]]]

\* LanguageDetector::add_language: every extension of the definition is
\* mapped to the key, then the definition is stored under the key
add_language(detector, key, lang) ==
    [detector EXCEPT
        !.extension_map =
            [e \in DOMAIN @ \cup SeqRange(lang.extensions) |->
                IF e \in SeqRange(lang.extensions) THEN key ELSE @[e]],
        !.languages =
            [k \in DOMAIN @ \cup {key} |-> IF k = key THEN lang ELSE @[k]]]

RECURSIVE AddLanguages(_, _, _)
\* `for (key, lang) in languages { self.add_language(key, lang); }` with the
\* entries taken in the given order
AddLanguages(detector, entries, order) ==
    IF order = <<>> THEN detector
    ELSE AddLanguages(add_language(detector, entries[Head(order)].key,
                                   entries[Head(order)].language),
                      entries, Tail(order))

\* mutant of load_from_config: the entries ahead of the malformed one are
\* merged before the error is returned
load_from_config_MergesPrefix(detector, config, order) ==
    LET bad == {i \in 1..Len(config) : ~config[i].valid}
        first == CHOOSE i \in bad : \A j \in bad : i <= j
    IN  IF bad # {}
        THEN [result |-> "InvalidConfig",
              detector |-> AddLanguages(detector, config,
                                       [i \in 1..(first - 1) |-> i])]
        ELSE [result |-> "Ok", detector |-> AddLanguages(detector, config, order)]

\* LanguageDetector::load_from_config: toml::from_str parses the whole file
\* into a HashMap or fails; order is the order the HashMap is iterated in
load_from_config(detector, config, order) ==
    IF \E i \in 1..Len(config) : ~config[i].valid
    THEN [result |-> "InvalidConfig", detector |-> detector]
    ELSE [result |-> "Ok", detector |-> AddLanguages(detector, config, order)]

\* LanguageDetector::add_override
add_override(detector, extension, target) ==
    [detector EXCEPT !.overrides =
        [e \in DOMAIN @ \cup {extension} |-> IF e = extension THEN target ELSE @[e]]]

\* mutant of detect: an override naming an unregistered language falls back
\* to the extension map
detect_FallsBack(detector, path) ==
    LET ext == Extension(path)
    IN  IF ~ext.some THEN NoLanguage
        ELSE IF /\ ext.value \in DOMAIN detector.overrides
                /\ detector.overrides[ext.value] \in DOMAIN detector.languages
        THEN detector.overrides[ext.value]
        ELSE IF ext.value \in DOMAIN detector.extension_map
        THEN GetLanguage(detector, detector.extension_map[ext.value])
        ELSE NoLanguage

\* LanguageDetector::detect: the key of the detected language, or NoLanguage
detect(detector, path) ==
    LET ext == Extension(path)
    IN  IF ~ext.some THEN NoLanguage
        ELSE IF ext.value \in DOMAIN detector.overrides
        THEN GetLanguage(detector, detector.overrides[ext.value])
        ELSE IF ext.value \in DOMAIN detector.extension_map
        THEN GetLanguage(detector, detector.extension_map[ext.value])
        ELSE NoLanguage

(***************************************************************************)
(* Input lines: every line made of at most two pieces, a piece being one   *)
(* of the language's markers, a blank or a code character.                 *)
(***************************************************************************)
\* the pieces lines of a language are made of
LinePieces(lang) ==
    {<<" ">>, <<"x">>}
        \cup SeqRange(lang.single_line_comment)
        \cup {p[1] : p \in SeqRange(lang.multi_line_comment)}
        \cup {p[2] : p \in SeqRange(lang.multi_line_comment)}
        \cup (IF lang.preprocessor_prefix.some
              THEN {lang.preprocessor_prefix.value} ELSE {})

LinesOf(pieces) == {<<>>} \cup pieces \cup {a \o b : a \in pieces, b \in pieces}

\* the lines a file of the given language is drawn from
Lines(key) ==
    IF key = NoLanguage THEN LinesOf({<<" ">>, <<"x">>})
    ELSE LinesOf(LinePieces(LoadedLanguages[key]))

\* the C file of the specification's scenario
CExample ==
    << <<"/", "/", " ", "c", "o", "m", "m", "e", "n", "t">>,
       <<>>,
       <<"i", "n", "t", " ", "x", ";">>,
       <<"/", "*", " ", "b", "l", "o", "c", "k">>,
       <<" ", "s", "t", "i", "l", "l", " ", "b", "l", "o", "c", "k", " ", "*", "/">>,
       <<"i", "n", "t", " ", "y", ";", " ", "/", "/", " ", "t", "r", "a", "i", "l",
         "i", "n", "g">> >>

(***************************************************************************)
(* State.                                                                  *)
(***************************************************************************)
VARIABLES
    \* count_file (counter.rs)
    cf_pc,               \* "idle", "reading", "done" (Ok(FileStats)), "error" (Err)
    input,               \* "stream": arbitrary lines; "c_example": the scenario file
    language,            \* key of the detected language, or NoLanguage
    ignore_preprocessor, \* the flag handed to CommentParser::new
    in_multiline,        \* count_file's in_multiline
    depth,               \* count_file's depth
    total_lines, logical_lines, comment_lines, empty_lines,
    line,                \* the line read last
    counted,             \* history: the counter the last line raised, or "none"
    opener,              \* history: index of the marker pair whose start token set
                         \* in_multiline (0 while in_multiline is false)
    inside               \* history: the last line held no end token of the pair
                         \* that was open when it was read

VARIABLES
    \* CommentParser::is_in_multiline_comment driven line by line (language.rs)
    cp_language,         \* key of the parser's language, or NoLanguage when unused
    cp_in_comment,       \* *in_comment
    cp_depth,            \* *depth
    cp_line,             \* the line fed last
    cp_result,           \* the boolean returned for it
    cp_before,           \* history: in_comment and depth before the last line
    cp_starts,           \* history: start-token lines fed so far
    cp_ends,             \* history: end-token lines fed after them
    cp_shape,            \* history: "starts", "ends" (starts then ends) or "other"
    cp_fed,              \* history: arbitrary lines fed
    lp_frame,            \* one call of is_in_multiline_comment step by step: its
                         \* position, arguments and locals, and the highest depth
                         \* it has seen
    pl_call              \* one call of parse_line: its parser, its line and, once
                         \* it has returned, the LineType

VARIABLES
    \* one Report, its export and its import (report.rs, output.rs)
    rp_report,           \* the Report built by Report::new
    rp_exported,         \* what ReportExporter::export wrote, once called
    rp_loaded,           \* what Report::from_file returned, once called
    rp_input,            \* the arguments Report::new is called with
    rp_second            \* the Report of a second run of execute_count

VARIABLES
    \* one comparison (processor.rs)
    cmp_report1,         \* the first report loaded by execute_compare
    cmp_report2,         \* the second report loaded
    cmp_result,          \* the ComparisonResult, once compare has run
    cmp_again            \* the ComparisonResult of a second run on the same reports

VARIABLES
    \* one run of execute_count (counter.rs)
    sc_detector,         \* the LanguageDetector shared by the workers
    sc_ignore,           \* args.ignore_preprocessor
    sc_paths,            \* the paths collect_paths returned
    sc_content,          \* the lines of each file, or Unreadable
    sc_results,          \* file_results: what the closure returned per path
    sc_report,           \* the Report, once Report::new has run
    dt_last,             \* the last call on the detector: its name, argument and
                         \* result, the detector before it, the calls so far
    sc_pool,             \* the number of threads of the rayon pool
    sc_workers           \* per path, the closure running count_file on it: its
                         \* position and the locals of count_file

countVars == <<cf_pc, input, language, ignore_preprocessor, in_multiline, depth,
               total_lines, logical_lines, comment_lines, empty_lines, line,
               counted, opener, inside>>

parserVars == <<cp_language, cp_in_comment, cp_depth, cp_line, cp_result, cp_before,
                cp_starts, cp_ends, cp_shape, cp_fed, lp_frame, pl_call>>

reportVars == <<rp_report, rp_exported, rp_loaded, rp_input, rp_second>>

compareVars == <<cmp_report1, cmp_report2, cmp_result, cmp_again>>

scanVars == <<sc_detector, sc_ignore, sc_paths, sc_content, sc_results, sc_report,
              dt_last, sc_pool, sc_workers>>

vars == <<countVars, parserVars, reportVars, compareVars, scanVars>>

\* ReportExporter::export not called yet
NotExported == [ok |-> FALSE, format |-> "none", doc |-> <<>>]

\* Report::from_file not called yet
NotLoaded == [done |-> FALSE, ok |-> FALSE, value |-> <<>>]

\* no scan is under way
ScanIdle ==
    /\ sc_detector = <<>>
    /\ sc_ignore = FALSE
    /\ sc_paths = <<>>
    /\ sc_content = <<>>
    /\ sc_results = <<>>
    /\ sc_report = <<>>
    /\ dt_last = <<>>
    /\ sc_pool = 0
    /\ sc_workers = <<>>

\* compare has not run
NotCompared == <<>>

\* no comparison is under way
CompareIdle ==
    /\ cmp_report1 = <<>>
    /\ cmp_report2 = <<>>
    /\ cmp_result = NotCompared
    /\ cmp_again = NotCompared

\* no report is held
ReportIdle ==
    /\ rp_report = <<>>
    /\ rp_exported = NotExported
    /\ rp_loaded = NotLoaded
    /\ rp_input = <<>>
    /\ rp_second = <<>>

\* count_file is not running
CountIdle ==
    /\ cf_pc = "idle"
    /\ input = "stream"
    /\ language = NoLanguage
    /\ ignore_preprocessor = FALSE
    /\ in_multiline = FALSE
    /\ depth = 0
    /\ total_lines = 0
    /\ logical_lines = 0
    /\ comment_lines = 0
    /\ empty_lines = 0
    /\ line = <<>>
    /\ counted = "none"
    /\ opener = 0
    /\ inside = FALSE

\* no parser is driven on its own
ParserIdle ==
    /\ cp_language = NoLanguage
    /\ cp_in_comment = FALSE
    /\ cp_depth = 0
    /\ cp_line = <<>>
    /\ cp_result = FALSE
    /\ cp_before = [in_comment |-> FALSE, depth |-> 0]
    /\ cp_starts = 0
    /\ cp_ends = 0
    /\ cp_shape = "starts"
    /\ cp_fed = 0
    /\ lp_frame = <<>>
    /\ pl_call = <<>>

(***************************************************************************)
(* count_file (counter.rs), one line at a time.                            *)
(***************************************************************************)
\* the loop body of count_file for a detected language: which counter the
\* line raises, and the parser state it leaves
CountLine(lang, ignore, l, in_comment, d) ==
    LET m == is_in_multiline_comment(lang, l, in_comment, d)
    IN  [in_comment |-> m.in_comment, depth |-> m.depth,
         counted |->
            IF m.result
            THEN IF Trim(l) = <<>> THEN "empty" ELSE "none"
            ELSE LET t == parse_line(lang, ignore, l)
                 IN  CASE t = LineEmpty   -> "empty"
                       [] t = LineComment -> "comment"
                       [] OTHER           -> "logical"]

\* mutant of Raised: a logical line is added to comment_lines as well
Raised_LogicalTwice(branch, counter) ==
    IF branch = counter \/ (branch = "logical" /\ counter = "comment") THEN 1 ELSE 0

\* `empty_lines += 1`, `comment_lines += 1`, `logical_lines += 1`: what the
\* line adds to one counter
Raised(branch, counter) == IF branch = counter THEN 1 ELSE 0

\* the loop body of count_file when no language was detected
CountUnknownLine(l) == IF Trim(l) = <<>> THEN "empty" ELSE "logical"

\* history: the pair whose start token set *in_comment, after one more line
OpenerAfter(lang, l, in_comment, open) ==
    LET n  == Len(lang.multi_line_comment)
        st0 == [in_comment |-> in_comment, depth |-> 0, line_copy |-> l,
                result |-> in_comment, returned |-> FALSE]
        S(k) == PairLoop(lang, l, st0, k)
        flips == {k \in 1..n : ~S(k - 1).in_comment /\ S(k).in_comment}
    IN  IF lang.nested_comments \/ n = 0 \/ ~S(n).in_comment THEN 0
        ELSE IF flips = {} THEN open
        ELSE CHOOSE k \in flips : \A j \in flips : j <= k

\* the lines the reader can yield next
NextLines ==
    IF input = "c_example"
    THEN IF total_lines < Len(CExample) THEN {CExample[total_lines + 1]} ELSE {}
    ELSE IF total_lines < MaxLines THEN Lines(language) ELSE {}

CountInit ==
    /\ cf_pc = "reading"
    /\ input \in {"stream", "c_example"}
    /\ language \in IF input = "c_example" THEN {"c"}
                    ELSE DOMAIN LoadedLanguages \cup {NoLanguage}
    /\ ignore_preprocessor \in BOOLEAN
    /\ in_multiline = FALSE
    /\ depth = 0
    /\ total_lines = 0
    /\ logical_lines = 0
    /\ comment_lines = 0
    /\ empty_lines = 0
    /\ line = <<>>
    /\ counted = "none"
    /\ opener = 0
    /\ inside = FALSE

\* one iteration of `for line in reader.lines()` with `line` Ok
ReadLine ==
    /\ cf_pc = "reading"
    /\ \E l \in NextLines :
        LET known == language # NoLanguage
            lang == LoadedLanguages[language]
            r == IF known
                 THEN CountLine(lang, ignore_preprocessor, l, in_multiline, depth)
                 ELSE [in_comment |-> in_multiline, depth |-> depth,
                       counted |-> CountUnknownLine(l)]
        IN  /\ line' = l
            /\ total_lines' = total_lines + 1
            /\ in_multiline' = r.in_comment
            /\ depth' = r.depth
            /\ counted' = r.counted
            /\ logical_lines' = logical_lines + Raised(r.counted, "logical")
            /\ comment_lines' = comment_lines + Raised(r.counted, "comment")
            /\ empty_lines' = empty_lines + Raised(r.counted, "empty")
            /\ opener' = IF known THEN OpenerAfter(lang, l, in_multiline, opener) ELSE 0
            /\ inside' = /\ known
                         /\ in_multiline
                         /\ opener # 0
                         /\ ~Contains(l, lang.multi_line_comment[opener][2])
    /\ UNCHANGED <<cf_pc, input, language, ignore_preprocessor>>
    /\ UNCHANGED <<parserVars, reportVars, compareVars, scanVars>>

\* the reader is exhausted: count_file returns Ok(FileStats)
EndOfFile ==
    /\ cf_pc = "reading"
    /\ input = "c_example" => total_lines = Len(CExample)
    /\ cf_pc' = "done"
    /\ UNCHANGED <<input, language, ignore_preprocessor, in_multiline, depth,
                   total_lines, logical_lines, comment_lines, empty_lines, line,
                   counted, opener, inside>>
    /\ UNCHANGED <<parserVars, reportVars, compareVars, scanVars>>

\* `line?` fails: count_file returns the I/O error
ReadError ==
    /\ cf_pc = "reading"
    /\ cf_pc' = "error"
    /\ UNCHANGED <<input, language, ignore_preprocessor, in_multiline, depth,
                   total_lines, logical_lines, comment_lines, empty_lines, line,
                   counted, opener, inside>>
    /\ UNCHANGED <<parserVars, reportVars, compareVars, scanVars>>

Init == CountInit /\ ParserIdle /\ ReportIdle /\ CompareIdle /\ ScanIdle

Next == ReadLine \/ EndOfFile \/ ReadError

\* count_file over one file
Spec == Init /\ [][Next]_vars

(***************************************************************************)
(* CommentParser::is_in_multiline_comment fed line by line, with the state *)
(* a caller threads through it (in_comment = false, depth = 0 at first).   *)
(***************************************************************************)
\* text around the one token of a start line or an end line
Padding == {<<>>, <<" ">>, <<"x">>}

\* lines holding exactly one start token of the language
StartLines(lang) ==
    {a \o p[1] \o b : a \in Padding, b \in Padding, p \in SeqRange(lang.multi_line_comment)}

\* lines holding exactly one end token of the language
EndLines(lang) ==
    {a \o p[2] \o b : a \in Padding, b \in Padding, p \in SeqRange(lang.multi_line_comment)}

ParserInit ==
    /\ CountIdle
    /\ ReportIdle
    /\ CompareIdle
    /\ ScanIdle
    /\ cp_language \in {k \in DOMAIN LoadedLanguages :
                            LoadedLanguages[k].multi_line_comment # <<>>}
    /\ cp_in_comment = FALSE
    /\ cp_depth = 0
    /\ cp_line = <<>>
    /\ cp_result = FALSE
    /\ cp_before = [in_comment |-> FALSE, depth |-> 0]
    /\ cp_starts = 0
    /\ cp_ends = 0
    /\ cp_shape = "starts"
    /\ cp_fed = 0
    /\ lp_frame = <<>>
    /\ pl_call = <<>>

\* one call of is_in_multiline_comment(line, &mut in_comment, &mut depth)
Feed(l) ==
    LET m == is_in_multiline_comment(LoadedLanguages[cp_language], l,
                                     cp_in_comment, cp_depth)
    IN  /\ cp_line' = l
        /\ cp_before' = [in_comment |-> cp_in_comment, depth |-> cp_depth]
        /\ cp_result' = m.result
        /\ cp_in_comment' = m.in_comment
        /\ cp_depth' = m.depth

\* the caller feeds a line holding one start token, before any end line
FeedStartLine ==
    /\ cp_language # NoLanguage
    /\ cp_shape = "starts"
    /\ cp_starts < MaxNest
    /\ \E l \in StartLines(LoadedLanguages[cp_language]) : Feed(l)
    /\ cp_starts' = cp_starts + 1
    /\ UNCHANGED <<cp_language, cp_ends, cp_shape, cp_fed, lp_frame, pl_call>>
    /\ UNCHANGED <<countVars, reportVars, compareVars, scanVars>>

\* the caller feeds a line holding one end token, after the start lines
FeedEndLine ==
    /\ cp_language # NoLanguage
    /\ cp_shape \in {"starts", "ends"}
    /\ cp_ends < cp_starts
    /\ \E l \in EndLines(LoadedLanguages[cp_language]) : Feed(l)
    /\ cp_ends' = cp_ends + 1
    /\ cp_shape' = "ends"
    /\ UNCHANGED <<cp_language, cp_starts, cp_fed, lp_frame, pl_call>>
    /\ UNCHANGED <<countVars, reportVars, compareVars, scanVars>>

\* the caller feeds any line
FeedLine ==
    /\ cp_language # NoLanguage
    /\ cp_fed < MaxFed
    /\ \E l \in Lines(cp_language) : Feed(l)
    /\ cp_fed' = cp_fed + 1
    /\ cp_shape' = "other"
    /\ UNCHANGED <<cp_language, cp_starts, cp_ends, lp_frame, pl_call>>
    /\ UNCHANGED <<countVars, reportVars, compareVars, scanVars>>

ParserNext == FeedStartLine \/ FeedEndLine \/ FeedLine

\* the comment parser driven over any sequence of lines
SpecParser == ParserInit /\ [][ParserNext]_vars

(***************************************************************************)
(* One call of is_in_multiline_comment, statement by statement, for the    *)
(* definitions the registry can hold: built-in ones and ones              *)
(* load_from_config deserialized, whose markers are any strings.           *)
(***************************************************************************)
LoopInit ==
    /\ CountIdle
    /\ ReportIdle
    /\ CompareIdle
    /\ ScanIdle
    /\ cp_language = NoLanguage
    /\ cp_in_comment = FALSE
    /\ cp_depth = 0
    /\ cp_line = <<>>
    /\ cp_result = FALSE
    /\ cp_before = [in_comment |-> FALSE, depth |-> 0]
    /\ cp_starts = 0
    /\ cp_ends = 0
    /\ cp_shape = "starts"
    /\ cp_fed = 0
    /\ pl_call = <<>>
    /\ \E lang \in {RustLang, CLang, PythonLang, ShellLang, PascalLang,
                     \* multi_line_comment = [["", ""]], with and without nesting
                     Language(<<"E">>, << <<"e">> >>, <<>>, << <<<<>>, <<>>>> >>,
                              TRUE, NoPrefix),
                     Language(<<"E">>, << <<"e">> >>, <<>>, << <<<<>>, <<>>>> >>,
                              FALSE, NoPrefix)},
          was_in \in BOOLEAN, was_at \in 0..MaxNest :
        \E l \in LinesOf(LinePieces(lang)) :
            lp_frame = [pc |-> "called", language |-> lang, line |-> l,
                        in_comment |-> was_in, depth |-> was_at,
                        line_copy |-> <<>>, result |-> FALSE, pair |-> 0,
                        peak |-> was_at]

\* the early return, `let mut line_copy`, `let mut result`
Enter ==
    /\ lp_frame # <<>>
    /\ lp_frame.pc = "called"
    /\ lp_frame' =
            IF lp_frame.language.multi_line_comment = <<>>
            THEN [lp_frame EXCEPT !.pc = "returned", !.result = FALSE]
            ELSE [lp_frame EXCEPT !.pc = "for", !.line_copy = lp_frame.line,
                                  !.result = lp_frame.in_comment, !.pair = 1]
    /\ UNCHANGED <<cp_language, cp_in_comment, cp_depth, cp_line, cp_result, cp_before,
                   cp_starts, cp_ends, cp_shape, cp_fed, pl_call>>
    /\ UNCHANGED <<countVars, reportVars, compareVars, scanVars>>

\* the head of `for (start, end) in ..`: the final `result` after the last
\* pair, the non-nested branch in one step, or the entry to the while loop
ForPair ==
    /\ lp_frame # <<>>
    /\ lp_frame.pc = "for"
    /\ lp_frame' =
            IF lp_frame.pair > Len(lp_frame.language.multi_line_comment)
            THEN [lp_frame EXCEPT !.pc = "returned"]
            ELSE IF lp_frame.language.nested_comments
            THEN [lp_frame EXCEPT !.pc = "while"]
            ELSE LET pair == lp_frame.language.multi_line_comment[lp_frame.pair]
                     st == SimplePair(pair[1], pair[2], lp_frame.line,
                                      [in_comment |-> lp_frame.in_comment,
                                       result |-> lp_frame.result,
                                       returned |-> FALSE])
                 IN  [lp_frame EXCEPT !.in_comment = st.in_comment,
                                      !.result = st.result,
                                      !.pc = IF st.returned THEN "returned" ELSE "for",
                                      !.pair = @ + 1]
    /\ UNCHANGED <<cp_language, cp_in_comment, cp_depth, cp_line, cp_result, cp_before,
                   cp_starts, cp_ends, cp_shape, cp_fed, pl_call>>
    /\ UNCHANGED <<countVars, reportVars, compareVars, scanVars>>

\* the test of `while line_copy.contains(start) || line_copy.contains(end)`:
\* into the body, or `result = *depth > 0;` and on to the next pair
WhileTest ==
    /\ lp_frame # <<>>
    /\ lp_frame.pc = "while"
    /\ LET pair == lp_frame.language.multi_line_comment[lp_frame.pair]
       IN  lp_frame' =
                IF \/ Contains(lp_frame.line_copy, pair[1])
                   \/ Contains(lp_frame.line_copy, pair[2])
                THEN [lp_frame EXCEPT !.pc = "body"]
                ELSE [lp_frame EXCEPT !.result = (lp_frame.depth > 0),
                                      !.pc = "for", !.pair = @ + 1]
    /\ UNCHANGED <<cp_language, cp_in_comment, cp_depth, cp_line, cp_result, cp_before,
                   cp_starts, cp_ends, cp_shape, cp_fed, pl_call>>
    /\ UNCHANGED <<countVars, reportVars, compareVars, scanVars>>

\* the body of the while loop: the first token of line_copy is consumed and
\* the depth moved, then back to the test
WhileBody ==
    /\ lp_frame # <<>>
    /\ lp_frame.pc = "body"
    /\ LET pair == lp_frame.language.multi_line_comment[lp_frame.pair]
           r == NestedPass(pair[1], pair[2], lp_frame.line_copy, lp_frame.depth)
       IN  lp_frame' = [lp_frame EXCEPT
                            !.pc = "while",
                            !.line_copy = r.line_copy, !.depth = r.depth,
                            !.peak = IF r.depth > @ THEN r.depth ELSE @]
    /\ UNCHANGED <<cp_language, cp_in_comment, cp_depth, cp_line, cp_result, cp_before,
                   cp_starts, cp_ends, cp_shape, cp_fed, pl_call>>
    /\ UNCHANGED <<countVars, reportVars, compareVars, scanVars>>

LoopNext == Enter \/ ForPair \/ WhileTest \/ WhileBody

\* one call run to its end: the calling thread keeps executing as long as
\* a statement is left to execute
SpecLoop == LoopInit /\ [][LoopNext]_vars /\ WF_vars(LoopNext)

(***************************************************************************)
(* One call of parse_line, for the built-in definitions and for one from a *)
(* configuration whose second marker is a prefix of its first.             *)
(***************************************************************************)
ParseLineInit ==
    /\ CountIdle
    /\ ReportIdle
    /\ CompareIdle
    /\ ScanIdle
    /\ cp_language = NoLanguage
    /\ cp_in_comment = FALSE
    /\ cp_depth = 0
    /\ cp_line = <<>>
    /\ cp_result = FALSE
    /\ cp_before = [in_comment |-> FALSE, depth |-> 0]
    /\ cp_starts = 0
    /\ cp_ends = 0
    /\ cp_shape = "starts"
    /\ cp_fed = 0
    /\ lp_frame = <<>>
    /\ \E lang \in {RustLang, CLang, PythonLang, ShellLang, PascalLang,
                     \* single_line_comment = ["--", "-"], preprocessor_prefix = "-"
                     Language(<<"D">>, << <<"d">> >>, << <<"-", "-">>, <<"-">> >>,
                              <<>>, FALSE, SomePrefix(<<"-">>))},
          ignore \in BOOLEAN :
        \E l \in LinesOf(LinePieces(lang)) :
            pl_call = [language |-> lang, ignore_preprocessor |-> ignore,
                       line |-> l, returned |-> FALSE, result |-> LineEmpty]

\* parser.parse_line(&line)
ParseLine ==
    /\ pl_call # <<>>
    /\ ~pl_call.returned
    /\ pl_call' = [pl_call EXCEPT
                        !.returned = TRUE,
                        !.result = parse_line(pl_call.language,
                                              pl_call.ignore_preprocessor,
                                              pl_call.line)]
    /\ UNCHANGED <<cp_language, cp_in_comment, cp_depth, cp_line, cp_result, cp_before,
                   cp_starts, cp_ends, cp_shape, cp_fed, lp_frame>>
    /\ UNCHANGED <<countVars, reportVars, compareVars, scanVars>>

\* parse_line called once
SpecParseLine == ParseLineInit /\ [][ParseLine]_vars

(***************************************************************************)
(* One report: Report::new, calculate_checksum, export and from_file.      *)
(***************************************************************************)
\* the FileStats a scan can return: a path, a language name and the four
\* counters, one choice with a total above the sum of the other three
FileChoices ==
    {FileStats(p, l, c[1], c[2], c[3], c[4]) :
        p \in {<<"a">>, <<"b">>, <<"c">>, <<"a", "2">>},
        l \in {<<"C">>, <<"R", "u", "s", "t">>},
        c \in {<<1, 1, 0, 0>>, <<2, 1, 0, 0>>, <<12, 10, 1, 1>>}}

\* collect_paths sorts and dedups the paths and the parallel map keeps their
\* order: the files of a report are in strictly ascending path order
FileLists ==
    {fs \in UNION {[1..n -> FileChoices] : n \in 0..MaxFiles} :
        \A i \in 1..(Len(fs) - 1) :
            /\ fs[i].path # fs[i + 1].path
            /\ PathLessEq(fs[i].path, fs[i + 1].path)}

\* the values Utc::now() can return
Timestamps == {3, 14}

ReportInit ==
    /\ CountIdle
    /\ ParserIdle
    /\ CompareIdle
    /\ ScanIdle
    /\ \E fs \in FileLists, now \in Timestamps,
          us \in {<<>>, << <<"u">> >>, << <<"u">>, <<"x", "y", "z">> >>} :
            rp_report = ReportNew(fs, us, now)
    /\ rp_exported = NotExported
    /\ rp_loaded = NotLoaded
    /\ rp_input = <<>>
    /\ rp_second = <<>>

\* execute_count: `if args.checksum { report.calculate_checksum(); }`
CalculateChecksum ==
    /\ rp_report # <<>>
    /\ rp_exported = NotExported
    /\ ~rp_report.checksum.some
    /\ rp_report' = calculate_checksum(rp_report)
    /\ UNCHANGED <<rp_exported, rp_loaded, rp_input, rp_second>>
    /\ UNCHANGED <<countVars, parserVars, compareVars, scanVars>>

\* ReportExporter::export with OutputFormat::Json
ExportJson ==
    /\ rp_report # <<>>
    /\ rp_exported = NotExported
    /\ rp_exported' = export_json(rp_report)
    /\ UNCHANGED <<rp_report, rp_loaded, rp_input, rp_second>>
    /\ UNCHANGED <<countVars, parserVars, compareVars, scanVars>>

\* ReportExporter::export with OutputFormat::Xml
ExportXml ==
    /\ rp_report # <<>>
    /\ rp_exported = NotExported
    /\ rp_exported' = export_xml(rp_report)
    /\ UNCHANGED <<rp_report, rp_loaded, rp_input, rp_second>>
    /\ UNCHANGED <<countVars, parserVars, compareVars, scanVars>>

\* ReportExporter::export with OutputFormat::Csv
ExportCsv ==
    /\ rp_report # <<>>
    /\ rp_exported = NotExported
    /\ rp_exported' = export_csv(rp_report)
    /\ UNCHANGED <<rp_report, rp_loaded, rp_input, rp_second>>
    /\ UNCHANGED <<countVars, parserVars, compareVars, scanVars>>

\* Report::from_file on the exported file
FromFile ==
    /\ rp_exported.ok
    /\ ~rp_loaded.done
    /\ \E now \in Timestamps :
        LET r == from_file(rp_exported, now)
        IN  rp_loaded' = [done |-> TRUE, ok |-> r.ok,
                          value |-> IF r.ok THEN r.value ELSE <<>>]
    /\ UNCHANGED <<rp_report, rp_exported, rp_input, rp_second>>
    /\ UNCHANGED <<countVars, parserVars, compareVars, scanVars>>

ReportNext == CalculateChecksum \/ ExportJson \/ ExportXml \/ ExportCsv \/ FromFile

\* a report built, checksummed, exported and loaded back
SpecReport == ReportInit /\ [][ReportNext]_vars

(***************************************************************************)
(* Two runs of execute_count with --checksum, each on its own files.       *)
(***************************************************************************)
\* the FileStats of the two runs: counters whose decimal texts run together
\* to the same digits, and counters of one digit each
DigestChoices ==
    {FileStats(p, <<"C">>, c[1], c[2], c[3], c[4]) :
        p \in {<<"a">>, <<"b">>, <<"c">>},
        c \in {<<12, 10, 1, 1>>, <<12, 1, 0, 11>>, <<1, 1, 0, 0>>, <<1, 0, 1, 0>>}}

\* the file lists of the two runs, in strictly ascending path order
DigestLists ==
    {fs \in UNION {[1..n -> DigestChoices] : n \in 0..MaxFiles} :
        \A i \in 1..(Len(fs) - 1) :
            /\ fs[i].path # fs[i + 1].path
            /\ PathLessEq(fs[i].path, fs[i + 1].path)}

DigestInit ==
    /\ CountIdle
    /\ ParserIdle
    /\ CompareIdle
    /\ ScanIdle
    /\ \E fs \in DigestLists, now \in Timestamps : rp_report = ReportNew(fs, <<>>, now)
    /\ \E fs \in DigestLists : rp_second = ReportNew(fs, <<>>, 14)
    /\ rp_exported = NotExported
    /\ rp_loaded = NotLoaded
    /\ rp_input = <<>>

\* the second run's `if args.checksum { report.calculate_checksum(); }`
CalculateChecksumSecond ==
    /\ rp_second # <<>>
    /\ ~rp_second.checksum.some
    /\ rp_second' = calculate_checksum(rp_second)
    /\ UNCHANGED <<rp_report, rp_exported, rp_loaded, rp_input>>
    /\ UNCHANGED <<countVars, parserVars, compareVars, scanVars>>

DigestNext == CalculateChecksum \/ CalculateChecksumSecond

\* two reports built and checksummed
SpecDigests == DigestInit /\ [][DigestNext]_vars

(***************************************************************************)
(* Report::new on any arguments: from_csv passes the files in the order of *)
(* the records it read.                                                    *)
(***************************************************************************)
NewInit ==
    /\ CountIdle
    /\ ParserIdle
    /\ CompareIdle
    /\ ScanIdle
    /\ rp_report = <<>>
    /\ rp_exported = NotExported
    /\ rp_loaded = NotLoaded
    /\ \E fs \in UNION {[1..n -> FileChoices] : n \in 0..MaxFiles},
          us \in {<<>>, << <<"u">> >>, << <<"u">>, <<"x", "y", "z">> >>} :
            rp_input = [files |-> fs, unsupported_files |-> us]
    /\ rp_second = <<>>

\* Report::new(files, unsupported_files)
NewReport ==
    /\ rp_input # <<>>
    /\ rp_report = <<>>
    /\ \E now \in Timestamps :
            rp_report' = ReportNew(rp_input.files, rp_input.unsupported_files, now)
    /\ UNCHANGED <<rp_exported, rp_loaded, rp_input, rp_second>>
    /\ UNCHANGED <<countVars, parserVars, compareVars, scanVars>>

\* Report::new called once
SpecNew == NewInit /\ [][NewReport]_vars

(***************************************************************************)
(* One comparison: execute_compare loads two reports and compares them.    *)
(***************************************************************************)
\* the file entries a loaded report can list; a report file is free to list
\* a path twice and in any order
ComparedFiles ==
    {FileStats(<<"a">>, <<"C">>, 2, 1, 0, 1),
     FileStats(<<"a">>, <<"C">>, 3, 2, 0, 1),
     FileStats(<<"b">>, <<"C">>, 2, 1, 1, 0),
     FileStats(<<"b">>, <<"R", "u", "s", "t">>, 2, 1, 0, 1)}

\* the reports Report::from_file can return to execute_compare
ComparedReports ==
    {ReportNew(fs, <<>>, now) :
        fs \in UNION {[1..n -> ComparedFiles] : n \in 0..MaxCompared},
        now \in Timestamps}

CompareInit ==
    /\ CountIdle
    /\ ParserIdle
    /\ ReportIdle
    /\ ScanIdle
    /\ cmp_report1 \in ComparedReports
    /\ cmp_report2 \in ComparedReports
    /\ cmp_result = NotCompared
    /\ cmp_again = NotCompared

\* ComparisonResult::compare(&report1, &report2)
Compare ==
    /\ cmp_report1 # <<>>
    /\ cmp_result = NotCompared
    /\ \E order2 \in KeyOrders(CollectMap(cmp_report2.files, "path")),
          order1 \in KeyOrders(CollectMap(cmp_report1.files, "path")) :
            cmp_result' = compare(cmp_report1, cmp_report2, order2, order1)
    /\ UNCHANGED <<cmp_report1, cmp_report2, cmp_again>>
    /\ UNCHANGED <<countVars, parserVars, reportVars, scanVars>>

\* execute_compare run a second time on the same two report files
CompareAgain ==
    /\ cmp_result # NotCompared
    /\ cmp_again = NotCompared
    /\ \E order2 \in KeyOrders(CollectMap(cmp_report2.files, "path")),
          order1 \in KeyOrders(CollectMap(cmp_report1.files, "path")) :
            cmp_again' = compare(cmp_report1, cmp_report2, order2, order1)
    /\ UNCHANGED <<cmp_report1, cmp_report2, cmp_result>>
    /\ UNCHANGED <<countVars, parserVars, reportVars, scanVars>>

CompareNext == Compare \/ CompareAgain

\* two reports loaded and compared, once and once more
SpecCompare == CompareInit /\ [][CompareNext]_vars

(***************************************************************************)
(* One run of execute_count: every path counted by a worker, the results   *)
(* partitioned and the Report built.                                       *)
(***************************************************************************)
\* a file File::open fails on
Unreadable == [readable |-> FALSE, lines |-> <<>>]

\* a file holding the given lines
Readable(lines) == [readable |-> TRUE, lines |-> lines]

RECURSIVE CountLoop(_, _, _, _)
\* the `for line in reader.lines()` loops of count_file; detected is the
\* Option<&Language> detected, acc the parser state and the four counters
CountLoop(detected, ignore, lines, acc) ==
    IF lines = <<>> THEN acc
    ELSE LET r == IF detected.some
                  THEN CountLine(detected.value, ignore, Head(lines),
                                 acc.in_comment, acc.depth)
                  ELSE [in_comment |-> acc.in_comment, depth |-> acc.depth,
                        counted |-> CountUnknownLine(Head(lines))]
         IN  CountLoop(detected, ignore, Tail(lines),
                [in_comment |-> r.in_comment, depth |-> r.depth,
                 total |-> acc.total + 1,
                 logical |-> acc.logical + Raised(r.counted, "logical"),
                 comment |-> acc.comment + Raised(r.counted, "comment"),
                 empty |-> acc.empty + Raised(r.counted, "empty")])

\* mutant of count_file: the lines read before the error are reported
count_file_KeepsPartial(path, content, detector, ignore) ==
    LET key == detect(detector, path)
        detected == IF key = NoLanguage THEN [some |-> FALSE, value |-> <<>>]
                    ELSE [some |-> TRUE, value |-> detector.languages[key]]
        language_name == IF detected.some THEN detected.value.name ELSE UnknownName
        n == CountLoop(detected, ignore, content.lines,
                [in_comment |-> FALSE, depth |-> 0,
                 total |-> 0, logical |-> 0, comment |-> 0, empty |-> 0])
    IN  IF ~content.readable /\ content.lines = <<>>
        THEN [ok |-> FALSE, stats |-> <<>>]
        ELSE [ok |-> TRUE,
              stats |-> FileStats(path, language_name, n.total, n.logical,
                                  n.comment, n.empty)]

\* count_file: Ok(FileStats) or the I/O error of File::open or of `line?`
count_file(path, content, detector, ignore) ==
    LET key == detect(detector, path)
        detected == IF key = NoLanguage THEN [some |-> FALSE, value |-> <<>>]
                    ELSE [some |-> TRUE, value |-> detector.languages[key]]
        language_name == IF detected.some THEN detected.value.name ELSE UnknownName
        n == CountLoop(detected, ignore, content.lines,
                [in_comment |-> FALSE, depth |-> 0,
                 total |-> 0, logical |-> 0, comment |-> 0, empty |-> 0])
    IN  IF ~content.readable THEN [ok |-> FALSE, stats |-> <<>>]
        ELSE [ok |-> TRUE,
              stats |-> FileStats(path, language_name, n.total, n.logical,
                                  n.comment, n.empty)]

\* mutant of FileResult: a file of unknown language is kept as counted
FileResult_KeepsUnknown(path, result) ==
    IF result.ok THEN [ok |-> TRUE, stats |-> result.stats, path |-> path]
    ELSE [ok |-> FALSE, stats |-> <<>>, path |-> path]

\* the `match result` of the worker closure: Ok(stats) or Err(path.clone())
FileResult(path, result) ==
    IF result.ok /\ result.stats.language # UnknownName
    THEN [ok |-> TRUE, stats |-> result.stats, path |-> path]
    ELSE [ok |-> FALSE, stats |-> <<>>, path |-> path]

\* the closure not yet run for a path
Pending == [ok |-> FALSE, stats |-> <<>>, path |-> <<>>]

\* partition(|res| res.is_ok()), the two unwrapping maps and Report::new
CreateReportFrom(file_results, now) ==
    LET oks == SelectSeq(file_results, LAMBDA r : r.ok)
        errs == SelectSeq(file_results, LAMBDA r : ~r.ok)
    IN  ReportNew([i \in 1..Len(oks) |-> oks[i].stats],
                  [i \in 1..Len(errs) |-> errs[i].path], now)

\* the files a scan can meet: a C source, a header, a Python script, a
\* Pascal unit, a file of unknown extension, one without extension
ScanPaths ==
    {<<"a", ".", "c">>, <<"a", ".", "h">>, <<"b", ".", "p", "a", "s">>,
     <<"b", ".", "x", "y", "z">>, <<"n">>, <<"s", ".", "p", "y">>}

\* what the files can hold
ScanContents ==
    {Readable(<<>>),
     Readable(<< <<"x">>, <<>> >>),
     Readable(<< <<"#", "x">>, <<"/", "*">>, <<"x">>, <<"*", "/">>, <<"/", "/">> >>),
     Unreadable,
     \* the reader fails on the second line
     [readable |-> FALSE, lines |-> << <<"x">> >>]}

\* the --language-override sets tried: none, the unknown extension mapped
\* to C, the C extension mapped to a language the registry lacks
ScanOverrides ==
    {[e \in {} |-> "c"],
     [e \in {<<"x", "y", "z">>} |-> "c"],
     [e \in {<<"c">>} |-> "cobol"]}

ScanInit ==
    /\ CountIdle
    /\ ParserIdle
    /\ ReportIdle
    /\ CompareIdle
    /\ \E with_config \in BOOLEAN, overrides \in ScanOverrides :
            sc_detector = Detector(with_config, overrides)
    /\ sc_ignore \in BOOLEAN
    \* collect_paths returns the paths sorted, without duplicates
    /\ sc_paths \in
            {ps \in UNION {[1..n -> ScanPaths] : n \in 0..MaxScanned} :
                \A i \in 1..(Len(ps) - 1) :
                    ps[i] # ps[i + 1] /\ PathLessEq(ps[i], ps[i + 1])}
    /\ sc_content \in [SeqRange(sc_paths) -> ScanContents]
    /\ sc_results = [i \in 1..Len(sc_paths) |-> Pending]
    /\ dt_last = <<>>
    /\ sc_pool = 0
    /\ sc_workers = <<>>
    /\ sc_report = <<>>

\* one run of the closure of paths.par_iter().map(..): a worker counts one
\* file; collect() keeps the results in path order
ProcessFile ==
    /\ sc_report = <<>>
    /\ \E i \in 1..Len(sc_paths) :
        /\ sc_results[i] = Pending
        /\ sc_results' = [sc_results EXCEPT ![i] =
                FileResult(sc_paths[i],
                    count_file(sc_paths[i], sc_content[sc_paths[i]],
                               sc_detector, sc_ignore))]
    /\ UNCHANGED <<sc_detector, sc_ignore, sc_paths, sc_content, sc_report, dt_last, sc_pool, sc_workers>>
    /\ UNCHANGED <<countVars, parserVars, reportVars, compareVars>>

\* every worker is done: partition and Report::new
CreateReport ==
    /\ sc_detector # <<>>
    /\ sc_report = <<>>
    /\ \A i \in 1..Len(sc_paths) : sc_results[i] # Pending
    /\ \E now \in Timestamps : sc_report' = CreateReportFrom(sc_results, now)
    /\ UNCHANGED <<sc_detector, sc_ignore, sc_paths, sc_content, sc_results, dt_last, sc_pool, sc_workers>>
    /\ UNCHANGED <<countVars, parserVars, reportVars, compareVars>>

ScanNext == ProcessFile \/ CreateReport

\* execute_count from the collected paths to the Report
SpecScan == ScanInit /\ [][ScanNext]_vars

(***************************************************************************)
(* The workers of execute_count line by line: the pool runs the closure    *)
(* for up to sc_pool paths at a time, each call of count_file reading its  *)
(* file with its own locals.                                               *)
(***************************************************************************)
\* mutant of WorkerLocals: in_multiline and depth are those of the reading
\* worker of the lowest index
WorkerLocals_Shared(workers, i) ==
    LET reading == {j \in DOMAIN workers : workers[j].pc = "reading"}
        first == CHOOSE j \in reading : \A k \in reading : j <= k
    IN  [workers[i] EXCEPT !.in_comment = workers[first].in_comment,
                           !.depth = workers[first].depth]

\* the locals of the call of count_file for the i-th path: in_multiline,
\* depth and the counters live on that worker's stack
WorkerLocals(workers, i) == workers[i]

WorkersInit ==
    /\ CountIdle
    /\ ParserIdle
    /\ ReportIdle
    /\ CompareIdle
    /\ sc_detector = Detector(FALSE, [e \in {} |-> "c"])
    /\ sc_ignore = FALSE
    /\ sc_paths \in
            {ps \in UNION {[1..n -> ScanPaths] : n \in 0..MaxScanned} :
                \A i \in 1..(Len(ps) - 1) :
                    ps[i] # ps[i + 1] /\ PathLessEq(ps[i], ps[i + 1])}
    \* a file ending inside a block comment, one closing a block it never
    \* opened, one the reader fails on after a line
    /\ sc_content \in [SeqRange(sc_paths) ->
            {Readable(<< <<"x">>, <<"/", "*">> >>),
             Readable(<< <<"x">>, <<"*", "/">> >>),
             [readable |-> FALSE, lines |-> << <<"x">> >>]}]
    /\ sc_results = [i \in 1..Len(sc_paths) |-> Pending]
    /\ sc_report = <<>>
    /\ dt_last = <<>>
    /\ sc_pool \in 1..MaxPool
    /\ sc_workers = [i \in 1..Len(sc_paths) |->
            [pc |-> "queued", pos |-> 0, in_comment |-> FALSE, depth |-> 0,
             total |-> 0, logical |-> 0, comment |-> 0, empty |-> 0]]

\* a free thread of the pool takes a path and enters count_file
StartFile ==
    /\ sc_report = <<>>
    /\ Cardinality({j \in DOMAIN sc_workers : sc_workers[j].pc = "reading"}) < sc_pool
    /\ \E i \in DOMAIN sc_workers :
        /\ sc_workers[i].pc = "queued"
        /\ sc_workers' = [sc_workers EXCEPT ![i].pc = "reading"]
    /\ UNCHANGED <<sc_detector, sc_ignore, sc_paths, sc_content, sc_results, sc_report,
                   dt_last, sc_pool>>
    /\ UNCHANGED <<countVars, parserVars, reportVars, compareVars>>

\* one pass of `for line in reader.lines()` in one worker
WorkerReadLine ==
    /\ \E i \in DOMAIN sc_workers :
        LET w == WorkerLocals(sc_workers, i)
            lines == sc_content[sc_paths[i]].lines
            key == detect(sc_detector, sc_paths[i])
            r == IF key # NoLanguage
                 THEN CountLine(sc_detector.languages[key], sc_ignore,
                                lines[w.pos + 1], w.in_comment, w.depth)
                 ELSE [in_comment |-> w.in_comment, depth |-> w.depth,
                       counted |-> CountUnknownLine(lines[w.pos + 1])]
        IN  /\ sc_workers[i].pc = "reading"
            /\ sc_workers[i].pos < Len(lines)
            /\ sc_workers' = [sc_workers EXCEPT ![i] =
                    [pc |-> "reading", pos |-> sc_workers[i].pos + 1,
                     in_comment |-> r.in_comment, depth |-> r.depth,
                     total |-> w.total + 1,
                     logical |-> w.logical + Raised(r.counted, "logical"),
                     comment |-> w.comment + Raised(r.counted, "comment"),
                     empty |-> w.empty + Raised(r.counted, "empty")]]
    /\ UNCHANGED <<sc_detector, sc_ignore, sc_paths, sc_content, sc_results, sc_report,
                   dt_last, sc_pool>>
    /\ UNCHANGED <<countVars, parserVars, reportVars, compareVars>>

\* the reader is at its end or fails: count_file returns and the closure
\* yields its Ok(stats) or Err(path), which collect() puts at the path's index
WorkerReturn ==
    /\ \E i \in DOMAIN sc_workers :
        LET w == WorkerLocals(sc_workers, i)
            content == sc_content[sc_paths[i]]
            key == detect(sc_detector, sc_paths[i])
            language_name == IF key # NoLanguage
                             THEN sc_detector.languages[key].name ELSE UnknownName
            result == IF ~content.readable THEN [ok |-> FALSE, stats |-> <<>>]
                      ELSE [ok |-> TRUE,
                            stats |-> FileStats(sc_paths[i], language_name, w.total,
                                                w.logical, w.comment, w.empty)]
        IN  /\ sc_workers[i].pc = "reading"
            /\ sc_workers[i].pos = Len(content.lines)
            /\ sc_workers' = [sc_workers EXCEPT ![i].pc = "done"]
            /\ sc_results' = [sc_results EXCEPT ![i] = FileResult(sc_paths[i], result)]
    /\ UNCHANGED <<sc_detector, sc_ignore, sc_paths, sc_content, sc_report,
                   dt_last, sc_pool>>
    /\ UNCHANGED <<countVars, parserVars, reportVars, compareVars>>

WorkersNext == StartFile \/ WorkerReadLine \/ WorkerReturn \/ CreateReport

\* execute_count with its workers interleaved line by line
SpecWorkers == WorkersInit /\ [][WorkersNext]_vars

(***************************************************************************)
(* The set-up of the detector: LanguageDetector::new, then configuration   *)
(* loads and overrides in any order, and detect on the result.             *)
(***************************************************************************)
\* the configuration files tried, as the entries toml::from_str meets: the
\* Pascal definition; a definition replacing key "c" and claiming .xyz; two
\* definitions claiming .xyz; the Pascal definition followed by a malformed
\* entry
Configs ==
    LET Entry(key, valid, lang) == [key |-> key, valid |-> valid, language |-> lang]
        Xyz(name) == Language(name, << <<"x", "y", "z">> >>, <<Hash>>, <<>>, FALSE, NoPrefix)
    IN  {<<Entry("pascal", TRUE, PascalLang)>>,
         <<Entry("c", TRUE, Xyz(<<"C", "2">>))>>,
         <<Entry("x1", TRUE, Xyz(<<"X", "1">>)), Entry("x2", TRUE, Xyz(<<"X", "2">>))>>,
         <<Entry("pascal", TRUE, PascalLang), Entry("bad", FALSE, PascalLang)>>}

DetectorInit ==
    /\ CountIdle
    /\ ParserIdle
    /\ ReportIdle
    /\ CompareIdle
    /\ sc_detector = Detector(FALSE, [e \in {} |-> "c"])
    /\ sc_ignore = FALSE
    /\ sc_paths = <<>>
    /\ sc_content = <<>>
    /\ sc_results = <<>>
    /\ sc_report = <<>>
    /\ dt_last = [op |-> "new", arg |-> <<>>, result |-> <<>>,
                  before |-> <<>>, order |-> <<>>, calls |-> 0]
    /\ sc_pool = 0
    /\ sc_workers = <<>>

\* detector.load_from_config(config_path)
LoadFromConfig ==
    /\ dt_last # <<>>
    /\ dt_last.calls < MaxCalls
    /\ \E config \in Configs :
        \E order \in {o \in [1..Len(config) -> 1..Len(config)] :
                        \A i, j \in 1..Len(config) : o[i] = o[j] => i = j} :
            LET r == load_from_config(sc_detector, config, order)
            IN  /\ sc_detector' = r.detector
                /\ dt_last' = [op |-> "load_from_config", arg |-> config,
                               result |-> r.result, before |-> sc_detector,
                               order |-> order, calls |-> dt_last.calls + 1]
    /\ UNCHANGED <<sc_ignore, sc_paths, sc_content, sc_results, sc_report,
                   sc_pool, sc_workers>>
    /\ UNCHANGED <<countVars, parserVars, reportVars, compareVars>>

\* detector.add_override(ext, lang)
AddOverride ==
    /\ dt_last # <<>>
    /\ dt_last.calls < MaxCalls
    /\ \E extension \in {<<"x", "y", "z">>, <<"c">>, <<"p", "y">>},
          target \in {"rust", "c", "x1", "cobol"} :
            /\ sc_detector' = add_override(sc_detector, extension, target)
            /\ dt_last' = [op |-> "add_override", arg |-> <<extension, target>>,
                           result |-> <<>>, before |-> sc_detector,
                           order |-> <<>>, calls |-> dt_last.calls + 1]
    /\ UNCHANGED <<sc_ignore, sc_paths, sc_content, sc_results, sc_report,
                   sc_pool, sc_workers>>
    /\ UNCHANGED <<countVars, parserVars, reportVars, compareVars>>

\* detector.detect(path): the Option<&Language> returned
Detect ==
    /\ dt_last # <<>>
    /\ \E path \in ScanPaths :
        LET key == detect(sc_detector, path)
        IN  dt_last' = [op |-> "detect", arg |-> path,
                        result |-> IF key = NoLanguage
                                   THEN [some |-> FALSE, value |-> <<>>]
                                   ELSE [some |-> TRUE,
                                         value |-> sc_detector.languages[key]],
                        before |-> sc_detector, order |-> <<>>,
                        calls |-> dt_last.calls]
    /\ UNCHANGED <<sc_detector, sc_ignore, sc_paths, sc_content, sc_results, sc_report,
                   sc_pool, sc_workers>>
    /\ UNCHANGED <<countVars, parserVars, reportVars, compareVars>>

DetectorNext == LoadFromConfig \/ AddOverride \/ Detect

\* the detector set up and queried
SpecDetector == DetectorInit /\ [][DetectorNext]_vars

(***************************************************************************)
(* Claims about count_file.                                                *)
(***************************************************************************)
\* count_file has returned Ok(FileStats) for a file with a detected language
CountedKnownFile == cf_pc = "done" /\ language # NoLanguage

\* C1: for every file counted with a detected language, the returned
\* FileStats satisfies total_lines = logical_lines + comment_lines + empty_lines.
C1_TotalIsSumOfCounters ==
    CountedKnownFile => total_lines = logical_lines + comment_lines + empty_lines

C3_InsideBlockNeverLogical ==
    (/\ language # NoLanguage
     /\ ~LoadedLanguages[language].nested_comments
     /\ inside) => counted # "logical"

\* C19: every line for which is_in_multiline_comment returns true raises
\* comment_lines by 1, unless the line is entirely whitespace, and then it
\* raises empty_lines by 1.
C19_InCommentIsCounted ==
    [][(/\ cf_pc = "reading"
        /\ language # NoLanguage
        /\ total_lines' = total_lines + 1
        /\ is_in_multiline_comment(LoadedLanguages[language], line',
                                   in_multiline, depth).result)
        => IF Trim(line') = <<>>
           THEN empty_lines' = empty_lines + 1 /\ comment_lines' = comment_lines
           ELSE comment_lines' = comment_lines + 1 /\ empty_lines' = empty_lines]_vars

\* C27: in a non-nested language, a line read outside a comment that holds
\* code and then a block-comment start token with nothing behind it is
\* counted as a logical line.
C27_CodeBeforeOpenIsLogical ==
    [][(/\ cf_pc = "reading"
        /\ language # NoLanguage
        /\ ~LoadedLanguages[language].nested_comments
        /\ ~in_multiline
        /\ total_lines' = total_lines + 1
        /\ \E k \in 1..Len(LoadedLanguages[language].multi_line_comment) :
                line' = <<"x">> \o LoadedLanguages[language].multi_line_comment[k][1])
        => /\ logical_lines' = logical_lines + 1
           /\ counted' = "logical"]_vars

(***************************************************************************)
(* Claims about the comment parser.                                        *)
(***************************************************************************)
\* the parser's language tracks nested comments
NestedParser ==
    cp_language # NoLanguage /\ LoadedLanguages[cp_language].nested_comments

\* N >= 2 start lines and then N end lines have been fed to a nested parser
C4_BalancedFed ==
    NestedParser /\ cp_shape = "ends" /\ cp_ends = cp_starts /\ cp_starts >= 2

\* C4: for a language with nested_comments=true, depth is never negative, an
\* end token met at depth 0 leaves depth at 0, and N start lines followed by
\* N end lines leave in_comment=false and depth=0.
C4_DepthBalanced ==
    NestedParser =>
        /\ cp_depth >= 0
        /\ (cp_before.depth = 0 /\ cp_line \in EndLines(LoadedLanguages[cp_language]))
                => cp_depth = 0
        /\ (cp_shape = "ends" /\ cp_ends = cp_starts)
                => (cp_in_comment = FALSE /\ cp_depth = 0)

(***************************************************************************)
(* Claims about the report model.                                          *)
(***************************************************************************)
\* the orders a list can be shuffled into
Shuffles(files) ==
    LET n == Len(files)
        orders == {f \in [1..n -> 1..n] : \A i, j \in 1..n : f[i] = f[j] => i = j}
    IN  {[i \in 1..n |-> files[f[i]]] : f \in orders}

C24_ChecksumAttached ==
    /\ rp_report # <<>>
    /\ rp_report.checksum.some
    /\ rp_report.files # <<>>
    /\ rp_report.unsupported_files # <<>>
    /\ rp_exported = NotExported

\* C24: a step of calculate_checksum changes the checksum field and no other
\* field of the Report; a second call on the result changes nothing; and the
\* value stored is the one calculate_checksum stores for every Report with
\* the same files, whatever its timestamp, its unsupported list and the
\* checksum it held before.
C24_ChecksumOnlyField ==
    [][(rp_report # <<>> /\ rp_report' # rp_report) =>
            /\ rp_report'.checksum.some
            /\ rp_report'.files = rp_report.files
            /\ rp_report'.languages = rp_report.languages
            /\ rp_report'.summary = rp_report.summary
            /\ rp_report'.unsupported_files = rp_report.unsupported_files
            /\ rp_report'.generated_at = rp_report.generated_at
            /\ rp_report'.report_format_version = rp_report.report_format_version
            /\ DOMAIN rp_report' = DOMAIN rp_report
            /\ calculate_checksum(rp_report') = rp_report'
            /\ \A now \in Timestamps,
                  us \in {<<>>, << <<"u">> >>},
                  previous \in {NoChecksum, SomeChecksum(<<"0">>), rp_report'.checksum} :
                    calculate_checksum([rp_report EXCEPT !.generated_at = now,
                                                         !.unsupported_files = us,
                                                         !.checksum = previous]).checksum
                        = rp_report'.checksum]_vars

\* the lengths of the texts fed to the hasher for a file list, field by field
C29_Cuts(files) ==
    [i \in 1..Len(files) |->
        <<Len(files[i].path), Len(files[i].language),
          Len(ToDecimal(files[i].total_lines)), Len(ToDecimal(files[i].logical_lines)),
          Len(ToDecimal(files[i].comment_lines)), Len(ToDecimal(files[i].empty_lines))>>]

\* both runs have their checksum
C29_BothDigested ==
    /\ rp_second # <<>>
    /\ rp_report.checksum.some
    /\ rp_second.checksum.some

\* the two runs counted different files whose fields have texts of the same
\* lengths, and both have their checksum
C29_SameCutsDigested ==
    /\ C29_BothDigested
    /\ Len(rp_report.files) = 2
    /\ rp_report.files # rp_second.files
    /\ C29_Cuts(rp_report.files) = C29_Cuts(rp_second.files)

\* C29 as claimed: two Reports whose files differ in some path, language or
\* counter, and are not permutations of each other, never get the same
\* checksum.
C29_DigestIdentifiesFiles ==
    (C29_BothDigested /\ rp_report.files # rp_second.files) =>
        rp_report.checksum # rp_second.checksum

\* C29 amended: two Reports whose files differ, and whose path-sorted file
\* lists have the same number of files and, at every position, texts of the
\* same length for path, language and each counter, never get the same
\* checksum.
C29_DigestIdentifiesFilesOfSameCuts ==
    (/\ C29_BothDigested
     /\ rp_report.files # rp_second.files
     /\ C29_Cuts(rp_report.files) = C29_Cuts(rp_second.files)) =>
        rp_report.checksum # rp_second.checksum

\* a report with files, unsupported files and a checksum came back from JSON
C6_JsonLoaded ==
    /\ rp_loaded.done
    /\ rp_loaded.ok
    /\ rp_exported.format = "json"
    /\ rp_report.files # <<>>
    /\ rp_report.unsupported_files # <<>>
    /\ rp_report.checksum.some

\* C6: a Report exported as JSON and loaded with from_file comes back equal
\* to the original on every field.
C6_JsonRoundTrip ==
    (rp_loaded.done /\ rp_exported.format = "json") =>
        (rp_loaded.ok /\ rp_loaded.value = rp_report)

\* C7: a Report exported as XML and loaded with from_file comes back, and
\* equal to the original on every field.
C7_XmlRoundTrip ==
    (rp_loaded.done /\ rp_exported.format = "xml") =>
        (rp_loaded.ok /\ rp_loaded.value = rp_report)

\* C8: exporting a Report as CSV succeeds, also with unsupported files, and
\* loading it back succeeds with the original files, the languages and the
\* summary Report::new derives from them, no unsupported file and no checksum.
C8_CsvRoundTrip ==
    /\ rp_exported.format = "csv" => rp_exported.ok
    /\ (rp_loaded.done /\ rp_exported.format = "csv") =>
        /\ rp_loaded.ok
        /\ rp_loaded.value.files = rp_report.files
        /\ rp_loaded.value.languages = calculate_language_stats(rp_report.files)
        /\ rp_loaded.value.summary =
                calculate_summary(rp_report.files, rp_loaded.value.languages)
        /\ rp_loaded.value.unsupported_files = <<>>
        /\ ~rp_loaded.value.checksum.some

\* Report::new was given files of two languages, the later name first,
\* and a list of unsupported paths
C17_ReportBuilt ==
    /\ rp_input # <<>>
    /\ rp_report # <<>>
    /\ Len(rp_report.languages) = 2
    /\ rp_input.files[1].language = <<"R", "u", "s", "t">>
    /\ rp_input.unsupported_files # <<>>

\* C17: in the report Report::new returns, languages holds one entry per
\* language name of the files, in ascending order of name; an entry's
\* file_count and line counters are the sums over the files of its
\* language; summary.total_files is the number of files and the sum of the
\* file_counts; each line counter of the summary is the sum of that counter
\* over the languages; languages_count is the number of entries and
\* summary.unsupported_files the length of the unsupported list.
C17_ReportAggregates ==
    (rp_input # <<>> /\ rp_report # <<>>) =>
        LET files == rp_input.files
            langs == rp_report.languages
            summary == rp_report.summary
            counters == {"total_lines", "logical_lines", "comment_lines", "empty_lines"}
            \* the sum of v[i] over the indices of a set
            Sum(v, indices) ==
                LET sum[S \in SUBSET indices] ==
                        IF S = {} THEN 0
                        ELSE LET i == CHOOSE i \in S : TRUE
                             IN  v[i] + sum[S \ {i}]
                IN  sum[indices]
            Of(name) == {i \in 1..Len(files) : files[i].language = name}
        IN  /\ rp_report.files = files
            /\ {langs[k].language : k \in 1..Len(langs)}
                    = {files[i].language : i \in 1..Len(files)}
            /\ \A k \in 1..(Len(langs) - 1) :
                    /\ langs[k].language # langs[k + 1].language
                    /\ PathLessEq(langs[k].language, langs[k + 1].language)
            /\ \A k \in 1..Len(langs) :
                    /\ langs[k].file_count = Cardinality(Of(langs[k].language))
                    /\ \A c \in counters :
                            langs[k][c] = Sum([i \in 1..Len(files) |-> files[i][c]],
                                              Of(langs[k].language))
            /\ summary.total_files = Len(files)
            /\ summary.total_files
                    = Sum([k \in 1..Len(langs) |-> langs[k].file_count], 1..Len(langs))
            /\ \A c \in counters :
                    summary[c] = Sum([k \in 1..Len(langs) |-> langs[k][c]], 1..Len(langs))
            /\ summary.languages_count = Len(langs)
            /\ summary.unsupported_files = Len(rp_input.unsupported_files)
            /\ rp_report.unsupported_files = rp_input.unsupported_files

(***************************************************************************)
(* Claims about one call of is_in_multiline_comment.                       *)
(***************************************************************************)
\* C18: for every language definition the registry can hold, empty marker
\* strings included, and every line and state, a call of
\* is_in_multiline_comment returns.
C18_CallReturns == <>(lp_frame.pc = "returned")

\* C20: for a language with nested comments, a call in which the depth was
\* nonzero at any point, on entry or during the scan of the line, returns
\* true.
C20_NonzeroDepthIsComment ==
    (/\ lp_frame.pc = "returned"
     /\ lp_frame.language.nested_comments
     /\ lp_frame.language.multi_line_comment # <<>>
     /\ lp_frame.peak > 0) => lp_frame.result = TRUE

(***************************************************************************)
(* Claims about one call of parse_line.                                    *)
(***************************************************************************)
\* parse_line has returned for a preprocessor line with suppression off
C21_DirectiveParsed ==
    /\ pl_call # <<>>
    /\ pl_call.returned
    /\ ~pl_call.ignore_preprocessor
    /\ pl_call.language.preprocessor_prefix.some
    /\ pl_call.line = pl_call.language.preprocessor_prefix.value \o <<"x">>
    /\ pl_call.result = LineLogical

\* C21: parse_line returns Empty if suppression is on and the trimmed line
\* starts with the preprocessor prefix; else Empty if the trimmed line is
\* empty; else, for the first single-line marker in declared order that
\* prefixes the trimmed line, Empty if only whitespace follows the marker and
\* Comment otherwise; else Mixed if the line contains a single-line marker;
\* else Logical.
C21_ParseLineReference ==
    (pl_call # <<>> /\ pl_call.returned) =>
        LET lang == pl_call.language
            markers == lang.single_line_comment
            t == Trim(pl_call.line)
            \* whether s begins with p, character by character
            Begins(s, p) == /\ Len(s) >= Len(p)
                            /\ \A i \in 1..Len(p) : s[i] = p[i]
            \* whether p occurs in s at some offset
            Occurs(s, p) == \E o \in 0..(Len(s) - Len(p)) :
                                \A i \in 1..Len(p) : s[o + i] = p[i]
            Blank(s) == \A i \in 1..Len(s) : IsWhitespace(s[i])
            prefixing == {k \in 1..Len(markers) : Begins(t, markers[k])}
            expected ==
                IF /\ pl_call.ignore_preprocessor
                   /\ lang.preprocessor_prefix.some
                   /\ Begins(t, lang.preprocessor_prefix.value)
                THEN LineEmpty
                ELSE IF t = <<>> THEN LineEmpty
                ELSE IF prefixing # {}
                THEN LET first == CHOOSE k \in prefixing : \A j \in prefixing : k <= j
                     IN  IF Blank(SubSeq(t, Len(markers[first]) + 1, Len(t)))
                         THEN LineEmpty ELSE LineComment
                ELSE IF \E k \in 1..Len(markers) : Occurs(pl_call.line, markers[k])
                THEN LineMixed
                ELSE LineLogical
        IN  pl_call.result = expected

(***************************************************************************)
(* Claims about the comparison.                                            *)
(***************************************************************************)
\* a report that lists files has been compared with itself
C9_SelfCompared ==
    /\ cmp_result # NotCompared
    /\ cmp_report1 = cmp_report2
    /\ Len(cmp_report1.files) >= 2

\* C9: comparing a report with itself yields no new, removed or modified
\* file and a global_delta whose every field is zero.
C9_SelfCompareIsEmpty ==
    (cmp_result # NotCompared /\ cmp_report1 = cmp_report2) =>
        /\ cmp_result.new_files = <<>>
        /\ cmp_result.removed_files = <<>>
        /\ cmp_result.modified_files = <<>>
        /\ \A field \in DOMAIN cmp_result.global_delta :
                cmp_result.global_delta[field] = 0

\* two reports were compared that share a file with other counters, one of
\* them listing a file the other lacks
C15_FilesCompared ==
    /\ cmp_result # NotCompared
    /\ cmp_result.modified_files # <<>>
    /\ cmp_result.new_files # <<>> \/ cmp_result.removed_files # <<>>

\* C15: compare(a, b) puts a path of b missing from a in new_files, a path
\* of a missing from b in removed_files, and a path of both in
\* modified_files, with deltas b minus a, exactly when its total_lines,
\* logical_lines or empty_lines differ; no path is listed twice or in two
\* of the sets.  (Of a report that lists a path twice the last entry counts.)
C15_PathsPartitioned ==
    cmp_result # NotCompared =>
        LET Paths(report) == {report.files[i].path : i \in 1..Len(report.files)}
            Entry(report, p) ==
                report.files[CHOOSE i \in 1..Len(report.files) :
                    /\ report.files[i].path = p
                    /\ \A j \in (i + 1)..Len(report.files) : report.files[j].path # p]
            Differ(p) ==
                \E field \in {"total_lines", "logical_lines", "empty_lines"} :
                    Entry(cmp_report1, p)[field] # Entry(cmp_report2, p)[field]
            modified == cmp_result.modified_files
        IN  /\ SeqRange(cmp_result.new_files) = Paths(cmp_report2) \ Paths(cmp_report1)
            /\ SeqRange(cmp_result.removed_files)
                    = Paths(cmp_report1) \ Paths(cmp_report2)
            /\ {modified[i].path : i \in 1..Len(modified)}
                    = {p \in Paths(cmp_report1) \cap Paths(cmp_report2) : Differ(p)}
            /\ Len(cmp_result.new_files) = Cardinality(SeqRange(cmp_result.new_files))
            /\ Len(cmp_result.removed_files)
                    = Cardinality(SeqRange(cmp_result.removed_files))
            /\ \A i, j \in 1..Len(modified) : modified[i].path = modified[j].path => i = j
            /\ \A i \in 1..Len(modified) :
                \A field \in {"total_lines", "logical_lines", "empty_lines"} :
                    LET delta == CASE field = "total_lines" -> modified[i].total_lines_delta
                                   [] field = "logical_lines" -> modified[i].logical_lines_delta
                                   [] field = "empty_lines" -> modified[i].empty_lines_delta
                    IN  delta = Entry(cmp_report2, modified[i].path)[field]
                                - Entry(cmp_report1, modified[i].path)[field]

\* two reports were compared of which one language changed in lines and
\* another language did not change at all
C16_LanguagesCompared ==
    /\ cmp_result # NotCompared
    /\ Len(cmp_result.language_deltas) = 1
    /\ cmp_result.language_deltas[1].files_delta = 0
    /\ Len(cmp_report1.languages) = 2
    /\ Len(cmp_report2.languages) = 2

\* C16: language_deltas holds one entry, with deltas b minus a, for exactly
\* the languages of either report whose file count or total lines differ
\* (a language missing from a report counts as zero there), and the entries
\* are in ascending order of language name.
C16_LanguageDeltas ==
    cmp_result # NotCompared =>
        LET Names(report) ==
                {report.languages[i].language : i \in 1..Len(report.languages)}
            Stat(report, name, field) ==
                IF name \in Names(report)
                THEN (CHOOSE l \in SeqRange(report.languages) : l.language = name)[field]
                ELSE 0
            Delta(name, field) ==
                Stat(cmp_report2, name, field) - Stat(cmp_report1, name, field)
            deltas == cmp_result.language_deltas
        IN  /\ {deltas[i].language : i \in 1..Len(deltas)}
                    = {name \in Names(cmp_report1) \cup Names(cmp_report2) :
                            \/ Delta(name, "file_count") # 0
                            \/ Delta(name, "total_lines") # 0}
            /\ \A i \in 1..Len(deltas) :
                    /\ deltas[i].files_delta = Delta(deltas[i].language, "file_count")
                    /\ deltas[i].total_lines_delta = Delta(deltas[i].language, "total_lines")
                    /\ deltas[i].logical_lines_delta
                            = Delta(deltas[i].language, "logical_lines")
                    /\ deltas[i].empty_lines_delta = Delta(deltas[i].language, "empty_lines")
            /\ \A i \in 1..(Len(deltas) - 1) :
                    /\ deltas[i].language # deltas[i + 1].language
                    /\ PathLessEq(deltas[i].language, deltas[i + 1].language)

\* the sum of a field over the files of a report written in a language
C28_Total(report, name, field) ==
    SumSeq([i \in 1..Len(report.files) |->
                IF report.files[i].language = name THEN report.files[i][field] ELSE 0])

\* the languages of either report that have no entry in language_deltas
C28_LeftOut ==
    ({cmp_report1.files[i].language : i \in 1..Len(cmp_report1.files)}
        \cup {cmp_report2.files[i].language : i \in 1..Len(cmp_report2.files)})
    \ {cmp_result.language_deltas[i].language :
            i \in 1..Len(cmp_result.language_deltas)}

\* two reports were compared in which a language kept its file count and its
\* total lines and changed in empty lines, and the language was left out
C28_EmptyOnlyChange ==
    /\ cmp_result # NotCompared
    /\ \E name \in C28_LeftOut :
            C28_Total(cmp_report2, name, "empty_lines")
                # C28_Total(cmp_report1, name, "empty_lines")

\* C28 as claimed: a language is left out of language_deltas only when its
\* files, total-lines, logical-lines and empty-lines deltas are all zero.
C28_LeftOutOnlyIfAllZero ==
    cmp_result # NotCompared =>
        \A name \in C28_LeftOut :
            /\ Cardinality({i \in 1..Len(cmp_report2.files) :
                                cmp_report2.files[i].language = name})
                    = Cardinality({i \in 1..Len(cmp_report1.files) :
                                        cmp_report1.files[i].language = name})
            /\ \A field \in {"total_lines", "logical_lines", "empty_lines"} :
                    C28_Total(cmp_report2, name, field) = C28_Total(cmp_report1, name, field)

\* C28 amended: a language is left out of language_deltas exactly when its
\* files delta and its total-lines delta are both zero, whatever its
\* logical-lines and empty-lines deltas are.
C28_LeftOutIffFilesAndTotalZero ==
    cmp_result # NotCompared =>
        \A name \in {cmp_report1.files[i].language : i \in 1..Len(cmp_report1.files)}
                        \cup {cmp_report2.files[i].language :
                                    i \in 1..Len(cmp_report2.files)} :
            name \in C28_LeftOut <=>
                /\ Cardinality({i \in 1..Len(cmp_report2.files) :
                                    cmp_report2.files[i].language = name})
                        = Cardinality({i \in 1..Len(cmp_report1.files) :
                                            cmp_report1.files[i].language = name})
                /\ C28_Total(cmp_report2, name, "total_lines")
                        = C28_Total(cmp_report1, name, "total_lines")

\* C30: two runs of compare on the same pair of reports produce the same
\* ComparisonResult, the element order of new_files, removed_files and
\* modified_files included.
C30_CompareIsDeterministic ==
    (cmp_result # NotCompared /\ cmp_again # NotCompared) => cmp_again = cmp_result

(***************************************************************************)
(* Claims about execute_count.                                             *)
(***************************************************************************)
\* position i of the scan holds a readable file whose extension has no
\* override and no registry entry
UnknownReadable(i) ==
    LET ext == Extension(sc_paths[i])
    IN  /\ ext.some
        /\ ext.value \notin DOMAIN sc_detector.overrides
        /\ ext.value \notin DOMAIN sc_detector.extension_map
        /\ sc_content[sc_paths[i]].readable

\* the report of the same scan without its i-th path
ReportWithout(i) ==
    CreateReportFrom(SubSeq(sc_results, 1, i - 1)
                        \o SubSeq(sc_results, i + 1, Len(sc_results)),
                     sc_report.generated_at)

\* a report was built from a counted file and a file of unknown extension
\* that holds lines
C10_UnknownScanned ==
    /\ sc_report # <<>>
    /\ sc_report.files # <<>>
    /\ \E i \in 1..Len(sc_paths) :
            UnknownReadable(i) /\ sc_content[sc_paths[i]].lines # <<>>

\* C10: a readable file whose extension has no override and no registry
\* entry is listed once in report.unsupported_files and not in report.files;
\* files, languages and summary are those of the scan without it, but for
\* summary.unsupported_files, which is one higher.
C10_UnknownIsUnsupported ==
    sc_report # <<>> =>
        \A i \in 1..Len(sc_paths) :
            UnknownReadable(i) =>
                LET path == sc_paths[i]
                    base == ReportWithout(i)
                    listed == {j \in 1..Len(sc_report.unsupported_files) :
                                    sc_report.unsupported_files[j] = path}
                IN  /\ Cardinality(listed) = 1
                    /\ \A j \in 1..Len(sc_report.files) :
                            sc_report.files[j].path # path
                    /\ sc_report.files = base.files
                    /\ sc_report.languages = base.languages
                    /\ sc_report.summary =
                            [base.summary EXCEPT !.unsupported_files = @ + 1]

(***************************************************************************)
(* Claims about the detector.                                              *)
(***************************************************************************)
\* detect has answered for a path whose extension has an override: a .xyz
\* file under xyz=rust, and a .c file whose override names no registered key
C11_OverrideDetected ==
    /\ dt_last # <<>>
    /\ dt_last.op = "detect"
    /\ dt_last.calls = MaxCalls
    /\ sc_detector.overrides = [e \in {<<"x", "y", "z">>, <<"c">>} |->
                                  IF e = <<"c">> THEN "cobol" ELSE "rust"]
    /\ \/ dt_last.arg = <<"b", ".", "x", "y", "z">> /\ dt_last.result.value = RustLang
       \/ dt_last.arg = <<"a", ".", "c">> /\ ~dt_last.result.some

\* C11: detect follows the resolution order.  An extension with an override
\* yields the language registered under the override's target, or None when
\* the target is not registered; an extension without override yields the
\* language the extension map names; no extension or no match yields None.
C11_ResolutionOrder ==
    (dt_last # <<>> /\ dt_last.op = "detect") =>
        LET ext == Extension(dt_last.arg)
            none == [some |-> FALSE, value |-> <<>>]
            Registered(key) ==
                IF key \in DOMAIN sc_detector.languages
                THEN [some |-> TRUE, value |-> sc_detector.languages[key]]
                ELSE none
        IN  /\ ~ext.some => dt_last.result = none
            /\ (ext.some /\ ext.value \in DOMAIN sc_detector.overrides) =>
                    dt_last.result = Registered(sc_detector.overrides[ext.value])
            /\ (/\ ext.some
                /\ ext.value \notin DOMAIN sc_detector.overrides
                /\ ext.value \in DOMAIN sc_detector.extension_map) =>
                    /\ dt_last.result.some
                    /\ dt_last.result.value =
                          sc_detector.languages[sc_detector.extension_map[ext.value]]
            /\ (/\ ext.some
                /\ ext.value \notin DOMAIN sc_detector.overrides
                /\ ext.value \notin DOMAIN sc_detector.extension_map) =>
                    dt_last.result = none

\* a load of a configuration with a malformed entry behind a good one failed
C13_LoadFailed ==
    /\ dt_last # <<>>
    /\ dt_last.op = "load_from_config"
    /\ dt_last.result = "InvalidConfig"
    /\ Len(dt_last.arg) >= 2

\* C13: a load_from_config that fails on a malformed configuration returns
\* the configuration error and leaves languages, extension map and overrides
\* as they were before the call.
C13_FailedLoadMergesNothing ==
    (/\ dt_last # <<>>
     /\ dt_last.op = "load_from_config"
     /\ \E i \in 1..Len(dt_last.arg) : ~dt_last.arg[i].valid) =>
        /\ dt_last.result = "InvalidConfig"
        /\ sc_detector = dt_last.before

\* a configuration whose two keys declare the same extension was loaded with
\* its second entry first, and the extension resolves to its first entry
C22_SharedExtensionLoaded ==
    /\ dt_last # <<>>
    /\ dt_last.op = "load_from_config"
    /\ dt_last.result = "Ok"
    /\ dt_last.order = <<2, 1>>
    /\ dt_last.arg[1].language.extensions = dt_last.arg[2].language.extensions
    /\ \A e \in SeqRange(dt_last.arg[1].language.extensions) :
            sc_detector.extension_map[e] = dt_last.arg[1].key

\* C22: after the add_language calls of a load, in the order they were made,
\* an extension declared by one of them maps to the key of the last call that
\* declared it, whatever keys the earlier calls used, and to no other key; an
\* extension none of them declared maps as it did before the load.
C22_LastWriterWins ==
    (/\ dt_last # <<>>
     /\ dt_last.op = "load_from_config"
     /\ dt_last.result = "Ok") =>
        LET config == dt_last.arg
            calls == dt_last.order
            before == dt_last.before.extension_map
            now == sc_detector.extension_map
            Declaring(e) == {n \in 1..Len(calls) :
                                e \in SeqRange(config[calls[n]].language.extensions)}
            Last(e) == CHOOSE n \in Declaring(e) : \A m \in Declaring(e) : m <= n
            declared == {e \in DOMAIN now : Declaring(e) # {}}
        IN  /\ DOMAIN now = DOMAIN before \cup
                    UNION {SeqRange(config[i].language.extensions) : i \in 1..Len(config)}
            /\ \A e \in declared : now[e] = config[calls[Last(e)]].key
            /\ \A e \in DOMAIN now \ declared : now[e] = before[e]

\* C23: whenever an extension maps to a key, the Language registered under
\* that key declares the extension.
C23_MapDerivedFromRegistry ==
    \A e \in DOMAIN sc_detector.extension_map :
        LET key == sc_detector.extension_map[e]
        IN  /\ key \in DOMAIN sc_detector.languages
            /\ e \in SeqRange(sc_detector.languages[key].extensions)

\* a worker has read a code line and then a line that opens a block comment,
\* which raised none of its counters
C25_LineRaisedNothing ==
    \E i \in DOMAIN sc_workers :
        LET w == sc_workers[i]
        IN  /\ w.pc = "reading"
            /\ w.pos = 2
            /\ w.logical = 1
            /\ w.total > w.logical + w.comment + w.empty

\* C25: each line a worker's count_file reads leaves total_lines equal to the
\* number of lines read, raises each of logical_lines, comment_lines and
\* empty_lines by 0 or 1 and at most one of them, and leaves total_lines at
\* or above the sum of the three.
C25_OneCounterPerLine ==
    [][\A i \in DOMAIN sc_workers :
            (sc_workers'[i].pos # sc_workers[i].pos) =>
                LET w == sc_workers[i]
                    v == sc_workers'[i]
                IN  /\ v.pos = w.pos + 1
                    /\ v.total = v.pos
                    /\ {v.logical - w.logical, v.comment - w.comment,
                        v.empty - w.empty} \subseteq {0, 1}
                    /\ (v.logical - w.logical) + (v.comment - w.comment)
                            + (v.empty - w.empty) <= 1
                    /\ v.total >= v.logical + v.comment + v.empty]_vars

RECURSIVE C26_OpenAfter(_, _, _, _)
\* whether a block comment is open at the end of the text, its start and end
\* tokens read from left to right: a start token opens a comment, the next
\* end token behind it closes it
C26_OpenAfter(start, end, text, open) ==
    IF text = <<>> THEN open
    ELSE IF open
    THEN IF StartsWith(text, end)
         THEN C26_OpenAfter(start, end, Drop(text, Len(end)), FALSE)
         ELSE C26_OpenAfter(start, end, Tail(text), TRUE)
    ELSE IF StartsWith(text, start)
         THEN C26_OpenAfter(start, end, Drop(text, Len(start)), TRUE)
         ELSE C26_OpenAfter(start, end, Tail(text), FALSE)

\* C26: for a non-nested language with one marker pair, in_comment after a
\* line is true exactly when the last start token seen so far has no end
\* token after it; a line that closes a comment and opens a new one leaves
\* in_comment true.
C26_InCommentTracksLastStart ==
    [][(/\ cp_language # NoLanguage
        /\ ~LoadedLanguages[cp_language].nested_comments
        /\ Len(LoadedLanguages[cp_language].multi_line_comment) = 1) =>
            LET pair == LoadedLanguages[cp_language].multi_line_comment[1]
            IN  cp_in_comment' = C26_OpenAfter(pair[1], pair[2], cp_line', cp_in_comment)]_vars

(***************************************************************************)
(* Claims about read failures in a scan.                                   *)
(***************************************************************************)
\* a report was built from a file whose reader failed after its first line
\* and a file that was counted
C12_ReadFailedInScan ==
    /\ sc_report # <<>>
    /\ sc_report.files # <<>>
    /\ \E i \in 1..Len(sc_paths) :
            /\ ~sc_content[sc_paths[i]].readable
            /\ sc_content[sc_paths[i]].lines # <<>>
            /\ detect(sc_detector, sc_paths[i]) # NoLanguage

\* C12: a read failure never aborts the scan.  Once every worker is done the
\* report can be built; in it a path whose read failed is in
\* unsupported_files and in no entry of files, the summary holds the counts
\* of the listed files only, every readable file of a detected language is
\* in files with the counts of all its lines, and every input path is in
\* exactly one of the two lists, once.
C12_ReadFailureIsPerFile ==
    /\ (\A i \in 1..Len(sc_paths) : sc_results[i] # Pending) =>
            (ENABLED CreateReport \/ sc_report # <<>>)
    /\ sc_report # <<>> =>
        LET InFiles(path) == {j \in 1..Len(sc_report.files) :
                                    sc_report.files[j].path = path}
            InUnsupported(path) == {j \in 1..Len(sc_report.unsupported_files) :
                                    sc_report.unsupported_files[j] = path}
        IN  /\ \A i \in 1..Len(sc_paths) :
                LET path == sc_paths[i]
                    content == sc_content[path]
                IN  /\ Cardinality(InFiles(path)) + Cardinality(InUnsupported(path)) = 1
                    /\ ~content.readable =>
                            InFiles(path) = {} /\ InUnsupported(path) # {}
                    /\ (content.readable /\ detect(sc_detector, path) # NoLanguage) =>
                            \E j \in InFiles(path) :
                                sc_report.files[j].total_lines = Len(content.lines)
            /\ Len(sc_report.files) + Len(sc_report.unsupported_files) = Len(sc_paths)
            /\ sc_report.summary.total_lines =
                    SumSeq([j \in 1..Len(sc_report.files) |->
                        Len(sc_content[sc_report.files[j].path].lines)])
            /\ sc_report.summary.total_files + sc_report.summary.unsupported_files
                    = Len(sc_paths)

(***************************************************************************)
(* Claims about the parallel scan.                                         *)
(***************************************************************************)
\* the report of a scan whose workers read two files at the same time, one
\* of them inside a block comment while the other was being read
C14_InterleavedScan ==
    /\ sc_report # <<>>
    /\ Len(sc_report.files) >= 2
    /\ sc_pool >= 2
    /\ \E i \in 1..Len(sc_paths) :
            /\ sc_content[sc_paths[i]] = Readable(<< <<"x">>, <<"/", "*">> >>)
            /\ detect(sc_detector, sc_paths[i]) = "c"

\* C14: the Report built from the workers' results (files, languages,
\* summary, unsupported_files, checksum) is the report of counting the paths
\* one after the other, each file on its own, whatever the order in which
\* the workers ran and finished and whatever the size of the pool.
C14_ReportIgnoresInterleaving ==
    sc_report # <<>> =>
        LET alone == CreateReportFrom(
                        [i \in 1..Len(sc_paths) |->
                            FileResult(sc_paths[i],
                                count_file(sc_paths[i], sc_content[sc_paths[i]],
                                           sc_detector, sc_ignore))],
                        sc_report.generated_at)
        IN  /\ sc_report = alone
            /\ calculate_checksum(sc_report).checksum
                    = calculate_checksum(alone).checksum

====
